---- MODULE Spec2Model ----
(***************************************************************************)
(* A model of the MOS 6502 emulator core of src/main.rs: the CPU record,   *)
(* the memory bus, operand resolution, the instruction handlers, the       *)
(* decode/dispatch loop of run_with_callback and the host's use of it      *)
(* (new, pokes, load, reset, run, callback).                               *)
(*                                                                         *)
(* Bytes are 0..255 and addresses 0..65535.  A Rust panic (index out of    *)
(* bounds, arithmetic overflow under overflow checks, todo!, panic!) is    *)
(* recorded in the field `fault` of the CPU record and ends the run.       *)
(* Arithmetic written with + or += in the source panics in a build with    *)
(* overflow checks and wraps in a build without; wrapping_add/wrapping_sub *)
(* always wrap.                                                            *)
(***************************************************************************)
EXTENDS Integers, Sequences, FiniteSets, TLC

VARIABLES
    ra, rx, ry, rs, pc, rp,   \* the CPU registers (struct CPU)
    memory,                   \* the memory array, as the map of its non-zero cells
    status,                   \* where the host is: created, prepared, loaded,
                              \* running, callback, halted, panicked
    fault,                    \* the panic that ended the run, or "none"
    diag,                     \* the values the panic message carries
    build,                    \* overflow checks of the build: "any" until an
                              \* overflow shows which build this is
    op_pc,                    \* address of the last opcode fetch (-1: none yet)
    opscode,                  \* the last opcode fetched (-1: none yet)
    pre,                      \* the CPU as it was when that opcode was fetched
    n_instr,                  \* instructions other than BRK executed to completion
    n_cb,                     \* callback invocations
    n_host,                   \* callback invocations that changed the CPU
    ra0,                      \* the value the host gave A before load_and_run
    loaded_program,           \* the program given to load
    calls,                    \* the CPU methods a unit harness called, each with
                              \* its argument and the SP it was called at
    rets                      \* what each of these calls returned

vars == <<ra, rx, ry, rs, pc, rp, memory, status, fault, diag, build,
          op_pc, opscode, pre, n_instr, n_cb, n_host, ra0, loaded_program,
          calls, rets>>

----------------------------------------------------------------------------
(* Bounds of the model. *)

\* instructions one run may execute
MaxSteps == 4
\* callback invocations of one run that change the CPU
MaxHostWrites == 1
\* calls a unit harness makes on one CPU
MaxCalls == 2

----------------------------------------------------------------------------
(* Program constants. *)

CARRY             == 1
ZERO              == 2
INTERRUPT_DISABLE == 4
DECIMAL_MODE      == 8
BREAK             == 16
BREAK2            == 32
OVERFLOW          == 64
NEGATIVE          == 128

STACK       == 256
STACK_RESET == 253

\* memory: [u8; 0xFFFF]
MemSize == 65535
\* load copies the program to 0x0600 and stores 0x0600 at the reset vector
LoadAddr    == 1536
ResetVector == 65532

Byte == 0 .. 255
Addr == 0 .. 65535

----------------------------------------------------------------------------
(* Bit operations on bytes. *)

Pow2(i) == CASE i = 0 -> 1 [] i = 1 -> 2 [] i = 2 -> 4 [] i = 3 -> 8
             [] i = 4 -> 16 [] i = 5 -> 32 [] i = 6 -> 64 [] i = 7 -> 128

Bit(v, i) == (v \div Pow2(i)) % 2

RECURSIVE BitOp(_, _, _, _)
\* f is the truth table of the operation, indexed from 1: f[bit of a + 1][bit of b + 1]
BitOp(f, a, b, i) ==
    IF i > 7 THEN 0
    ELSE f[Bit(a, i) + 1][Bit(b, i) + 1] * Pow2(i) + BitOp(f, a, b, i + 1)

BitAnd(a, b) == BitOp(<<<<0, 0>>, <<0, 1>>>>, a, b, 0)
BitOr(a, b)  == BitOp(<<<<0, 1>>, <<1, 1>>>>, a, b, 0)
BitXor(a, b) == BitOp(<<<<0, 1>>, <<1, 0>>>>, a, b, 0)

----------------------------------------------------------------------------
(* The ProcessorStatus bitflags, as operations on the byte rp. *)

Contains(p, flag) == (p \div flag) % 2 = 1
Insert(p, flag)   == IF Contains(p, flag) THEN p ELSE p + flag
Remove(p, flag)   == IF Contains(p, flag) THEN p - flag ELSE p
SetFlag(p, flag, value) == IF value THEN Insert(p, flag) ELSE Remove(p, flag)

----------------------------------------------------------------------------
(* The memory array.  A cell that is not in the map holds 0, its value     *)
(* after CPU::new; the map never holds a 0, so equal arrays are equal maps.*)

Cell(mem, a) == IF a \in DOMAIN mem THEN mem[a] ELSE 0

Store(mem, a, v) ==
    IF v = 0
    THEN [x \in DOMAIN mem \ {a} |-> mem[x]]
    ELSE [x \in DOMAIN mem \cup {a} |-> IF x = a THEN v ELSE mem[x]]

\* whether memory[addr as usize] is inside the array
InBounds(a) == a < MemSize

Panic(c, kind, info) == [c EXCEPT !.fault = kind, !.diag = info]

Ok(c) == c.fault = "none"

\* let x = ...; the rest of the function body is K
Bind(x, K(_)) == K(x)

\* the panic message of an index out of bounds names the length and the index
IndexPanic(c, a) == Panic(c, "index", <<MemSize, a>>)

\* self.memory[addr as usize] = val
mem_write(c, a, v) ==
    IF ~Ok(c) THEN c
    ELSE IF ~InBounds(a) THEN IndexPanic(c, a)
    ELSE [c EXCEPT !.memory = Store(c.memory, a, v)]

\* self.memory[addr as usize]: the CPU after the access and the byte read
mem_read(c, a) ==
    IF ~Ok(c) THEN [c |-> c, val |-> 0]
    ELSE IF ~InBounds(a) THEN [c |-> IndexPanic(c, a), val |-> 0]
    ELSE [c |-> c, val |-> Cell(c.memory, a)]

\* a + n on u16 written with + : panics under overflow checks, wraps without
AddU16(c, a, n) ==
    IF ~Ok(c) THEN [c |-> c, val |-> 0]
    ELSE IF a + n <= 65535 THEN [c |-> c, val |-> a + n]
    ELSE IF c.checks
         THEN [c |-> Panic([c EXCEPT !.ovf = TRUE], "overflow", <<>>), val |-> 0]
         ELSE [c |-> [c EXCEPT !.ovf = TRUE], val |-> (a + n) % 65536]

mem_read_u16(c, pos) ==
    Bind(mem_read(c, pos), LAMBDA lo :
    Bind(AddU16(lo.c, pos, 1), LAMBDA nxt :
    Bind(mem_read(nxt.c, nxt.val), LAMBDA hi :
        [c |-> hi.c, val |-> hi.val * 256 + lo.val])))

mem_write_u16(c, pos, val) ==
    Bind(AddU16(mem_write(c, pos, val % 256), pos, 1), LAMBDA nxt :
        mem_write(nxt.c, nxt.val, val \div 256))

----------------------------------------------------------------------------
(* Operand resolution. *)

\* let lo = self.mem_read(addr); let hi = self.mem_read(addr.wrapping_add(1));
\* (hi as u16) << 8 | (lo as u16), addr being a u16
read_pointer(c, addr) ==
    Bind(mem_read(c, addr), LAMBDA lo :
    Bind(mem_read(lo.c, (addr + 1) % 65536), LAMBDA hi :
        [c |-> hi.c, val |-> hi.val * 256 + lo.val]))

\* the CPU after the resolution and the effective address (val)
get_operand_address(c, mode) ==
    CASE mode = "Immediate" -> [c |-> c, val |-> c.pc]
      [] mode = "ZeroPage"  -> mem_read(c, c.pc)
      [] mode = "Absolute"  -> mem_read_u16(c, c.pc)
      [] mode = "ZeroPageX" ->
            Bind(mem_read(c, c.pc), LAMBDA b :
                [c |-> b.c, val |-> (b.val + c.rx) % 256])
      [] mode = "ZeroPageY" ->
            Bind(mem_read(c, c.pc), LAMBDA b :
                [c |-> b.c, val |-> (b.val + c.ry) % 256])
      [] mode = "AbsoluteX" ->
            Bind(mem_read_u16(c, c.pc), LAMBDA w :
                [c |-> w.c, val |-> (w.val + c.rx) % 65536])
      [] mode = "AbsoluteY" ->
            Bind(mem_read_u16(c, c.pc), LAMBDA w :
                [c |-> w.c, val |-> (w.val + c.ry) % 65536])
      [] mode = "IndirectX" ->
            Bind(mem_read(c, c.pc), LAMBDA b :
                read_pointer(b.c, (b.val + c.rx) % 256))
      [] mode = "IndirectY" ->
            Bind(mem_read(c, c.pc), LAMBDA b :
            Bind(read_pointer(b.c, b.val), LAMBDA deref_base :
                [c |-> deref_base.c, val |-> (deref_base.val + c.ry) % 65536]))
      [] OTHER -> [c |-> Panic(c, "implied", <<mode>>), val |-> 0]

\* let addr = self.get_operand_address(mode); let val = self.mem_read(addr);
operand(c, mode) ==
    Bind(get_operand_address(c, mode), LAMBDA a :
    Bind(mem_read(a.c, a.val), LAMBDA v :
        [c |-> v.c, addr |-> a.val, val |-> v.val]))

----------------------------------------------------------------------------
(* Flag helpers and the stack. *)

update_negative_flag(c, reg) ==
    [c EXCEPT !.rp = SetFlag(c.rp, NEGATIVE, BitAnd(reg, 128) # 0)]

\* update_zero_and_negative_flags without its self.rp.set(ZERO, reg == 0)
update_negative_only(c, reg) ==
    update_negative_flag(c, reg)

update_zero_and_negative_flags(c, reg) ==
    update_negative_flag([c EXCEPT !.rp = SetFlag(c.rp, ZERO, reg = 0)], reg)

set_reg_a(c, val) ==
    update_zero_and_negative_flags([c EXCEPT !.ra = val], val)

\* self.rp.set(flag, value)
set_flag(c, flag, value) == [c EXCEPT !.rp = SetFlag(c.rp, flag, value)]

\* add_to_reg_a that corrects the low digit of the sum when D is set
add_to_reg_a_decimal(c, val) ==
    Bind(c.ra + val + (IF Contains(c.rp, CARRY) THEN 1 ELSE 0), LAMBDA s :
    Bind(IF Contains(c.rp, DECIMAL_MODE) /\ s % 16 > 9
         THEN (s + 6) % 256 ELSE s % 256, LAMBDA result :
    Bind(set_flag(c, CARRY, 255 < s), LAMBDA c1 :
    Bind(set_flag(c1, OVERFLOW,
            BitAnd(BitAnd(BitXor(val, result), BitXor(c.ra, result)), 128) # 0),
         LAMBDA c2 :
        set_reg_a(c2, result)))))

\* add_to_reg_a that leaves the carry out of the sum
add_to_reg_a_no_carry_in(c, val) ==
    Bind(c.ra + val, LAMBDA s :
    Bind(s % 256, LAMBDA result :
    Bind(set_flag(c, CARRY, 255 < s), LAMBDA c1 :
    Bind(set_flag(c1, OVERFLOW,
            BitAnd(BitAnd(BitXor(val, result), BitXor(c.ra, result)), 128) # 0),
         LAMBDA c2 :
        set_reg_a(c2, result)))))

\* add_to_reg_a that sets OVERFLOW after it has written the result to A
add_to_reg_a_overflow_after(c, val) ==
    Bind(c.ra + val + (IF Contains(c.rp, CARRY) THEN 1 ELSE 0), LAMBDA s :
    Bind(s % 256, LAMBDA result :
    Bind(set_reg_a(set_flag(c, CARRY, 255 < s), result), LAMBDA c1 :
        set_flag(c1, OVERFLOW,
            BitAnd(BitAnd(BitXor(val, result), BitXor(c1.ra, result)), 128) # 0))))

add_to_reg_a(c, val) ==
    Bind(c.ra + val + (IF Contains(c.rp, CARRY) THEN 1 ELSE 0), LAMBDA s :
    Bind(s % 256, LAMBDA result :
    Bind(set_flag(c, CARRY, 255 < s), LAMBDA c1 :
    Bind(set_flag(c1, OVERFLOW,
            BitAnd(BitAnd(BitXor(val, result), BitXor(c.ra, result)), 128) # 0),
         LAMBDA c2 :
        set_reg_a(c2, result)))))

stack_pop(c) ==
    mem_read([c EXCEPT !.rs = (c.rs + 1) % 256], STACK + ((c.rs + 1) % 256))

stack_pop_u16(c) ==
    Bind(stack_pop(c), LAMBDA lo :
    Bind(stack_pop(lo.c), LAMBDA hi :
        [c |-> hi.c, val |-> hi.val * 256 + lo.val]))

stack_push(c, val) ==
    Bind(mem_write(c, STACK + c.rs, val), LAMBDA c1 :
        IF ~Ok(c1) THEN c1 ELSE [c1 EXCEPT !.rs = (c1.rs + 255) % 256])

\* stack_push_u16 with its two pushes in the other order
stack_push_u16_lo_first(c, val) ==
    stack_push(stack_push(c, val % 256), val \div 256)

stack_push_u16(c, val) ==
    stack_push(stack_push(c, val \div 256), val % 256)

\* self.pc += 1 whatever the size of the operand
pc_add_single(c, n) ==
    Bind(AddU16(c, c.pc, 1), LAMBDA s :
        IF ~Ok(s.c) THEN s.c ELSE [s.c EXCEPT !.pc = s.val])

\* self.pc += n
pc_add(c, n) ==
    Bind(AddU16(c, c.pc, n), LAMBDA s :
        IF ~Ok(s.c) THEN s.c ELSE [s.c EXCEPT !.pc = s.val])

----------------------------------------------------------------------------
(* The instruction handlers, in the order of the source. *)

adc(c, mode) ==
    Bind(operand(c, mode), LAMBDA o :
        IF ~Ok(o.c) THEN o.c ELSE add_to_reg_a(o.c, o.val))

and(c, mode) ==
    Bind(operand(c, mode), LAMBDA o :
        IF ~Ok(o.c) THEN o.c ELSE set_reg_a(o.c, BitAnd(c.ra, o.val)))

asl_accumulator(c) ==
    Bind((c.ra * 2) % 256, LAMBDA result :
        set_reg_a(set_flag(c, CARRY, BitAnd(c.ra, 128) # 0), result))

asl(c, mode) ==
    Bind(operand(c, mode), LAMBDA o :
    Bind((o.val * 2) % 256, LAMBDA result :
    Bind(mem_write(set_flag(o.c, CARRY, BitAnd(o.val, 128) # 0), o.addr, result), LAMBDA c2 :
        IF ~Ok(c2) THEN c2 ELSE update_zero_and_negative_flags(c2, result))))

\* jump: mem_read(pc) as i8, then as u16 (sign extension)
\* branch with the offset taken as unsigned: mem_read(self.pc) as u16
branch_unsigned_offset(c, condition) ==
    IF condition
    THEN Bind(mem_read(c, c.pc), LAMBDA b :
             IF ~Ok(b.c) THEN b.c
             ELSE [b.c EXCEPT !.pc = (((c.pc + 1) % 65536) + b.val) % 65536])
    ELSE pc_add(c, 1)

branch(c, condition) ==
    IF condition
    THEN Bind(mem_read(c, c.pc), LAMBDA b :
         Bind(IF b.val >= 128 THEN b.val + 65280 ELSE b.val, LAMBDA jump :
             IF ~Ok(b.c) THEN b.c
             ELSE [b.c EXCEPT !.pc = (((c.pc + 1) % 65536) + jump) % 65536]))
    ELSE pc_add(c, 1)

bbc(c) == branch(c, ~Contains(c.rp, CARRY))

bcs(c) == branch(c, Contains(c.rp, CARRY))

beq(c) == branch(c, Contains(c.rp, ZERO))

\* bit that takes V and N from A & M instead of M
bit_flags_from_and(c, mode) ==
    Bind(operand(c, mode), LAMBDA o :
        IF ~Ok(o.c) THEN o.c
        ELSE set_flag(set_flag(set_flag(o.c,
                 ZERO, BitAnd(c.ra, o.val) = 0),
                 OVERFLOW, BitAnd(BitAnd(c.ra, o.val), 64) # 0),
                 NEGATIVE, BitAnd(BitAnd(c.ra, o.val), 128) # 0))

bit(c, mode) ==
    Bind(operand(c, mode), LAMBDA o :
        IF ~Ok(o.c) THEN o.c
        ELSE set_flag(set_flag(set_flag(o.c,
                 ZERO, BitAnd(c.ra, o.val) = 0),
                 OVERFLOW, BitAnd(o.val, 64) # 0),
                 NEGATIVE, BitAnd(o.val, 128) # 0))

bmi(c) == branch(c, Contains(c.rp, NEGATIVE))

bne(c) == branch(c, ~Contains(c.rp, ZERO))

bpl(c) == branch(c, ~Contains(c.rp, NEGATIVE))

bvc(c) == branch(c, ~Contains(c.rp, OVERFLOW))

bvs(c) == branch(c, Contains(c.rp, OVERFLOW))

clc(c) == [c EXCEPT !.rp = Remove(c.rp, CARRY)]

cld(c) == [c EXCEPT !.rp = Remove(c.rp, DECIMAL_MODE)]

cli(c) == [c EXCEPT !.rp = Remove(c.rp, INTERRUPT_DISABLE)]

clv(c) == [c EXCEPT !.rp = Remove(c.rp, OVERFLOW)]

\* compare with val < other in place of val <= other
compare_strict(c, mode, other) ==
    Bind(operand(c, mode), LAMBDA o :
        IF ~Ok(o.c) THEN o.c
        ELSE update_zero_and_negative_flags(set_flag(o.c, CARRY, o.val < other),
                                            (other + 256 - o.val) % 256))

compare(c, mode, other) ==
    Bind(operand(c, mode), LAMBDA o :
        IF ~Ok(o.c) THEN o.c
        ELSE update_zero_and_negative_flags(set_flag(o.c, CARRY, o.val <= other),
                                            (other + 256 - o.val) % 256))

cmp(c, mode) == compare(c, mode, c.ra)

cpx(c, mode) == compare(c, mode, c.rx)

cpy(c, mode) == compare(c, mode, c.ry)

dec(c, mode) ==
    Bind(operand(c, mode), LAMBDA o :
    Bind((o.val + 255) % 256, LAMBDA result :
    Bind(mem_write(o.c, o.addr, result), LAMBDA c2 :
        IF ~Ok(c2) THEN c2 ELSE update_zero_and_negative_flags(c2, result))))

dex(c) ==
    update_zero_and_negative_flags([c EXCEPT !.rx = (c.rx + 255) % 256], (c.rx + 255) % 256)

dey(c) ==
    update_zero_and_negative_flags([c EXCEPT !.ry = (c.ry + 255) % 256], (c.ry + 255) % 256)

eor(c, mode) ==
    Bind(operand(c, mode), LAMBDA o :
        IF ~Ok(o.c) THEN o.c ELSE set_reg_a(o.c, BitXor(c.ra, o.val)))

inc(c, mode) ==
    Bind(operand(c, mode), LAMBDA o :
    Bind((o.val + 1) % 256, LAMBDA result :
    Bind(mem_write(o.c, o.addr, result), LAMBDA c2 :
        IF ~Ok(c2) THEN c2 ELSE update_zero_and_negative_flags(c2, result))))

inx(c) ==
    update_zero_and_negative_flags([c EXCEPT !.rx = (c.rx + 1) % 256], (c.rx + 1) % 256)

iny(c) ==
    update_zero_and_negative_flags([c EXCEPT !.ry = (c.ry + 1) % 256], (c.ry + 1) % 256)

jmp_absolute(c) ==
    Bind(mem_read_u16(c, c.pc), LAMBDA addr :
        IF ~Ok(addr.c) THEN addr.c ELSE [addr.c EXCEPT !.pc = addr.val])

\* let lo = self.mem_read(addr); let hi = self.mem_read(addr & 0xff00);
read_pointer_in_page(c, addr) ==
    Bind(mem_read(c, addr), LAMBDA lo :
    Bind(mem_read(lo.c, (addr \div 256) * 256), LAMBDA hi :
        [c |-> hi.c, val |-> hi.val * 256 + lo.val]))

\* jmp_indirect without the page-wrap branch: always mem_read_u16(addr)
jmp_indirect_no_wrap(c) ==
    Bind(mem_read_u16(c, c.pc), LAMBDA addr :
    Bind(mem_read_u16(addr.c, addr.val), LAMBDA indirect_addr :
        IF ~Ok(indirect_addr.c) THEN indirect_addr.c
        ELSE [indirect_addr.c EXCEPT !.pc = indirect_addr.val]))

jmp_indirect(c) ==
    Bind(mem_read_u16(c, c.pc), LAMBDA addr :
    Bind(IF addr.val % 256 = 255
         THEN read_pointer_in_page(addr.c, addr.val)
         ELSE mem_read_u16(addr.c, addr.val), LAMBDA indirect_addr :
        IF ~Ok(indirect_addr.c) THEN indirect_addr.c
        ELSE [indirect_addr.c EXCEPT !.pc = indirect_addr.val]))

\* jsr that pushes the address of the next instruction: self.pc + 2
jsr_pushes_next(c) ==
    Bind(AddU16(c, c.pc, 2), LAMBDA ret :
    Bind(mem_read_u16(stack_push_u16(ret.c, ret.val), c.pc), LAMBDA addr :
        IF ~Ok(addr.c) THEN addr.c ELSE [addr.c EXCEPT !.pc = addr.val]))

jsr(c) ==
    Bind(AddU16(c, c.pc, 1), LAMBDA ret :
    Bind(mem_read_u16(stack_push_u16(ret.c, ret.val), c.pc), LAMBDA addr :
        IF ~Ok(addr.c) THEN addr.c ELSE [addr.c EXCEPT !.pc = addr.val]))

lda(c, mode) ==
    Bind(operand(c, mode), LAMBDA o :
        IF ~Ok(o.c) THEN o.c ELSE set_reg_a(o.c, o.val))

ldx(c, mode) ==
    Bind(operand(c, mode), LAMBDA o :
        IF ~Ok(o.c) THEN o.c
        ELSE update_zero_and_negative_flags([o.c EXCEPT !.rx = o.val], o.val))

ldy(c, mode) ==
    Bind(operand(c, mode), LAMBDA o :
        IF ~Ok(o.c) THEN o.c
        ELSE update_zero_and_negative_flags([o.c EXCEPT !.ry = o.val], o.val))

lsr_accumulator(c) ==
    Bind(c.ra \div 2, LAMBDA result :
        set_reg_a(set_flag(c, CARRY, BitAnd(c.ra, 1) # 0), result))

lsr(c, mode) ==
    Bind(operand(c, mode), LAMBDA o :
    Bind(o.val \div 2, LAMBDA result :
    Bind(mem_write(set_flag(o.c, CARRY, BitAnd(o.val, 1) # 0), o.addr, result), LAMBDA c2 :
        IF ~Ok(c2) THEN c2 ELSE update_zero_and_negative_flags(c2, result))))

ora(c, mode) ==
    Bind(operand(c, mode), LAMBDA o :
        IF ~Ok(o.c) THEN o.c ELSE set_reg_a(o.c, BitOr(c.ra, o.val)))

pha(c) == stack_push(c, c.ra)

\* php without its rp.insert(ProcessorStatus::BREAK)
php_no_break(c) == stack_push(c, Insert(c.rp, BREAK2))

php(c) == stack_push(c, Insert(Insert(c.rp, BREAK), BREAK2))

pla(c) ==
    Bind(stack_pop(c), LAMBDA v :
        IF ~Ok(v.c) THEN v.c ELSE set_reg_a(v.c, v.val))

\* plp without its self.rp.remove(ProcessorStatus::BREAK)
plp_keeps_break(c) ==
    Bind(stack_pop(c), LAMBDA v :
        IF ~Ok(v.c) THEN v.c
        ELSE [v.c EXCEPT !.rp = Insert(v.val, BREAK2)])

plp(c) ==
    Bind(stack_pop(c), LAMBDA v :
        IF ~Ok(v.c) THEN v.c
        ELSE [v.c EXCEPT !.rp = Insert(Remove(v.val, BREAK), BREAK2)])

\* rol_accumulator without its `if c { val = val | 1 }`
rol_accumulator_drops_carry(c) ==
    set_reg_a(set_flag(c, CARRY, BitAnd(c.ra, 128) # 0), (c.ra * 2) % 256)

rol_accumulator(c) ==
    Bind(BitOr((c.ra * 2) % 256, (IF Contains(c.rp, CARRY) THEN 1 ELSE 0)), LAMBDA result :
        set_reg_a(set_flag(c, CARRY, BitAnd(c.ra, 128) # 0), result))

rol(c, mode) ==
    Bind(operand(c, mode), LAMBDA o :
    Bind(BitOr((o.val * 2) % 256, (IF Contains(c.rp, CARRY) THEN 1 ELSE 0)), LAMBDA result :
    Bind(mem_write(set_flag(o.c, CARRY, BitAnd(o.val, 128) # 0), o.addr, result), LAMBDA c2 :
        IF ~Ok(c2) THEN c2 ELSE update_negative_flag(c2, result))))

ror_accumulator(c) ==
    Bind(BitOr(c.ra \div 2, (IF Contains(c.rp, CARRY) THEN 1 ELSE 0) * 128), LAMBDA result :
        set_reg_a(set_flag(c, CARRY, BitAnd(c.ra, 1) # 0), result))

ror(c, mode) ==
    Bind(operand(c, mode), LAMBDA o :
    Bind(BitOr(o.val \div 2, (IF Contains(c.rp, CARRY) THEN 1 ELSE 0) * 128), LAMBDA result :
    Bind(mem_write(set_flag(o.c, CARRY, BitAnd(o.val, 1) # 0), o.addr, result), LAMBDA c2 :
        IF ~Ok(c2) THEN c2 ELSE update_negative_flag(c2, result))))

\* rti that adds one to the popped address, as rts does
rti_plus_one(c) ==
    Bind(plp(c), LAMBDA c1 :
    Bind(stack_pop_u16(c1), LAMBDA w :
    Bind(AddU16(w.c, w.val, 1), LAMBDA s :
        IF ~Ok(s.c) THEN s.c ELSE [s.c EXCEPT !.pc = s.val])))

rti(c) ==
    Bind(plp(c), LAMBDA c1 :
    Bind(stack_pop_u16(c1), LAMBDA w :
        IF ~Ok(w.c) THEN w.c ELSE [w.c EXCEPT !.pc = w.val]))

rts(c) ==
    Bind(stack_pop_u16(c), LAMBDA w :
    Bind(AddU16(w.c, w.val, 1), LAMBDA s :
        IF ~Ok(s.c) THEN s.c ELSE [s.c EXCEPT !.pc = s.val]))

\* sbc that adds the two's complement: wrapping_neg without wrapping_sub(1)
sbc_twos_complement(c, mode) ==
    Bind(operand(c, mode), LAMBDA o :
        IF ~Ok(o.c) THEN o.c
        ELSE add_to_reg_a(o.c, (256 - o.val) % 256))

\* (val as i8).wrapping_neg().wrapping_sub(1) as u8
sbc(c, mode) ==
    Bind(operand(c, mode), LAMBDA o :
        IF ~Ok(o.c) THEN o.c
        ELSE add_to_reg_a(o.c, (((256 - o.val) % 256) + 255) % 256))

sec(c) == [c EXCEPT !.rp = Insert(c.rp, CARRY)]

sed(c) == [c EXCEPT !.rp = Insert(c.rp, DECIMAL_MODE)]

sei(c) == [c EXCEPT !.rp = Insert(c.rp, INTERRUPT_DISABLE)]

\* sta that updates Z and N from A, as a load does
sta_sets_flags(c, mode) ==
    Bind(get_operand_address(c, mode), LAMBDA addr :
        update_zero_and_negative_flags(mem_write(addr.c, addr.val, c.ra), c.ra))

sta(c, mode) ==
    Bind(get_operand_address(c, mode), LAMBDA a :
        mem_write(a.c, a.val, c.ra))

stx(c, mode) ==
    Bind(get_operand_address(c, mode), LAMBDA a :
        mem_write(a.c, a.val, c.rx))

sty(c, mode) ==
    Bind(get_operand_address(c, mode), LAMBDA a :
        mem_write(a.c, a.val, c.ry))

tax(c) ==
    update_zero_and_negative_flags([c EXCEPT !.rx = c.ra], c.ra)

tay(c) ==
    update_zero_and_negative_flags([c EXCEPT !.ry = c.ra], c.ra)

tsx(c) ==
    update_zero_and_negative_flags([c EXCEPT !.rx = c.rs], c.rs)

txa(c) ==
    update_zero_and_negative_flags([c EXCEPT !.ra = c.rx], c.rx)

txs(c) == [c EXCEPT !.rs = c.rx]

tya(c) ==
    update_zero_and_negative_flags([c EXCEPT !.ra = c.ry], c.ry)

----------------------------------------------------------------------------
(* The decode/dispatch loop of run_with_callback. *)

\* match opscode { ... }: one arm per opcode, each followed by its operand
\* advance; 0x00 returns; any other value reaches todo!(), whose message
\* ("not yet implemented") carries no value
OpTable(c, op) ==
    CASE op = \h69 -> pc_add(adc(c, "Immediate"), 1)
      [] op = \h65 -> pc_add(adc(c, "ZeroPage"), 1)
      [] op = \h75 -> pc_add(adc(c, "ZeroPageX"), 1)
      [] op = \h6d -> pc_add(adc(c, "Absolute"), 2)
      [] op = \h7d -> pc_add(adc(c, "AbsoluteX"), 2)
      [] op = \h79 -> pc_add(adc(c, "AbsoluteX"), 2)
      [] op = \h61 -> pc_add(adc(c, "IndirectX"), 1)
      [] op = \h71 -> pc_add(adc(c, "IndirectY"), 1)
      [] op = \h29 -> pc_add(and(c, "Immediate"), 1)
      [] op = \h25 -> pc_add(and(c, "ZeroPage"), 1)
      [] op = \h35 -> pc_add(and(c, "ZeroPageX"), 1)
      [] op = \h2d -> pc_add(and(c, "Absolute"), 2)
      [] op = \h3d -> pc_add(and(c, "AbsoluteX"), 2)
      [] op = \h39 -> pc_add(and(c, "AbsoluteY"), 2)
      [] op = \h21 -> pc_add(and(c, "IndirectX"), 1)
      [] op = \h31 -> pc_add(and(c, "IndirectY"), 1)
      [] op = \h0a -> asl_accumulator(c)
      [] op = \h06 -> pc_add(asl(c, "ZeroPage"), 1)
      [] op = \h16 -> pc_add(asl(c, "ZeroPageX"), 1)
      [] op = \h0e -> pc_add(asl(c, "Absolute"), 2)
      [] op = \h1e -> pc_add(asl(c, "AbsoluteX"), 2)
      [] op = \h90 -> bbc(c)
      [] op = \hb0 -> bcs(c)
      [] op = \hf0 -> beq(c)
      [] op = \h24 -> pc_add(bit(c, "ZeroPage"), 1)
      [] op = \h2c -> pc_add(bit(c, "Absolute"), 2)
      [] op = \h30 -> bmi(c)
      [] op = \hd0 -> bne(c)
      [] op = \h10 -> bpl(c)
      [] op = \h50 -> bvc(c)
      [] op = \h70 -> bvs(c)
      [] op = \h18 -> clc(c)
      [] op = \hd8 -> cld(c)
      [] op = \h58 -> cli(c)
      [] op = \hb8 -> clv(c)
      [] op = \hc9 -> pc_add(cmp(c, "Immediate"), 1)
      [] op = \hc5 -> pc_add(cmp(c, "ZeroPage"), 1)
      [] op = \hd5 -> pc_add(cmp(c, "ZeroPageX"), 1)
      [] op = \hcd -> pc_add(cmp(c, "Absolute"), 2)
      [] op = \hdd -> pc_add(cmp(c, "AbsoluteX"), 2)
      [] op = \hd9 -> pc_add(cmp(c, "AbsoluteY"), 2)
      [] op = \hc1 -> pc_add(cmp(c, "IndirectX"), 1)
      [] op = \hd1 -> pc_add(cmp(c, "IndirectY"), 1)
      [] op = \he0 -> pc_add(cpx(c, "Immediate"), 1)
      [] op = \he4 -> pc_add(cpx(c, "ZeroPage"), 1)
      [] op = \hec -> pc_add(cpx(c, "Absolute"), 2)
      [] op = \hc0 -> pc_add(cpy(c, "Immediate"), 1)
      [] op = \hc4 -> pc_add(cpy(c, "Immediate"), 1)
      [] op = \hcc -> pc_add(cpy(c, "Absolute"), 2)
      [] op = \hc6 -> pc_add(dec(c, "ZeroPage"), 1)
      [] op = \hd6 -> pc_add(dec(c, "ZeroPageX"), 1)
      [] op = \hce -> pc_add(dec(c, "Absolute"), 2)
      [] op = \hde -> pc_add(dec(c, "AbsoluteX"), 2)
      [] op = \hca -> dex(c)
      [] op = \h88 -> dey(c)
      [] op = \h49 -> pc_add(eor(c, "Immediate"), 1)
      [] op = \h45 -> pc_add(eor(c, "ZeroPage"), 1)
      [] op = \h55 -> pc_add(eor(c, "ZeroPageX"), 1)
      [] op = \h4d -> pc_add(eor(c, "Absolute"), 2)
      [] op = \h5d -> pc_add(eor(c, "AbsoluteX"), 2)
      [] op = \h59 -> pc_add(eor(c, "AbsoluteY"), 2)
      [] op = \h41 -> pc_add(eor(c, "IndirectX"), 1)
      [] op = \h51 -> pc_add(eor(c, "IndirectY"), 1)
      [] op = \he6 -> pc_add(inc(c, "ZeroPage"), 1)
      [] op = \hf6 -> pc_add(inc(c, "ZeroPageX"), 1)
      [] op = \hee -> pc_add(inc(c, "Absolute"), 2)
      [] op = \hfe -> pc_add(inc(c, "AbsoluteX"), 2)
      [] op = \he8 -> inx(c)
      [] op = \hc8 -> iny(c)
      [] op = \h4c -> jmp_absolute(c)
      [] op = \h6c -> jmp_indirect(c)
      [] op = \h20 -> jsr(c)
      [] op = \ha9 -> pc_add(lda(c, "Immediate"), 1)
      [] op = \ha5 -> pc_add(lda(c, "ZeroPage"), 1)
      [] op = \hb5 -> pc_add(lda(c, "ZeroPageX"), 1)
      [] op = \had -> pc_add(lda(c, "Absolute"), 2)
      [] op = \hbd -> pc_add(lda(c, "AbsoluteX"), 2)
      [] op = \hb9 -> pc_add(lda(c, "AbsoluteY"), 2)
      [] op = \ha1 -> pc_add(lda(c, "IndirectX"), 1)
      [] op = \hb1 -> pc_add(lda(c, "IndirectY"), 1)
      [] op = \ha2 -> pc_add(ldx(c, "Immediate"), 1)
      [] op = \ha6 -> pc_add(ldx(c, "ZeroPage"), 1)
      [] op = \hb6 -> pc_add(ldx(c, "ZeroPageY"), 1)
      [] op = \hae -> pc_add(ldx(c, "Absolute"), 2)
      [] op = \hbe -> pc_add(ldx(c, "AbsoluteY"), 2)
      [] op = \ha0 -> pc_add(ldy(c, "Immediate"), 1)
      [] op = \ha4 -> pc_add(ldy(c, "ZeroPage"), 1)
      [] op = \hb4 -> pc_add(ldy(c, "ZeroPageX"), 1)
      [] op = \hac -> pc_add(ldy(c, "Absolute"), 2)
      [] op = \hbc -> pc_add(ldy(c, "AbsoluteX"), 2)
      [] op = \h4a -> lsr_accumulator(c)
      [] op = \h46 -> pc_add(lsr(c, "ZeroPage"), 1)
      [] op = \h56 -> pc_add(lsr(c, "ZeroPageX"), 1)
      [] op = \h4e -> pc_add(lsr(c, "Absolute"), 2)
      [] op = \h5e -> pc_add(lsr(c, "AbsoluteX"), 2)
      [] op = \h09 -> pc_add(ora(c, "Immediate"), 1)
      [] op = \h05 -> pc_add(ora(c, "ZeroPage"), 1)
      [] op = \h15 -> pc_add(ora(c, "ZeroPageX"), 1)
      [] op = \h0d -> pc_add(ora(c, "Absolute"), 2)
      [] op = \h1d -> pc_add(ora(c, "AbsoluteX"), 2)
      [] op = \h19 -> pc_add(ora(c, "AbsoluteY"), 2)
      [] op = \h01 -> pc_add(ora(c, "IndirectX"), 1)
      [] op = \h11 -> pc_add(ora(c, "IndirectY"), 1)
      [] op = \h48 -> pha(c)
      [] op = \h08 -> php(c)
      [] op = \h68 -> pla(c)
      [] op = \h28 -> plp(c)
      [] op = \h2a -> rol_accumulator(c)
      [] op = \h26 -> pc_add(rol(c, "ZeroPage"), 1)
      [] op = \h36 -> pc_add(rol(c, "ZeroPageX"), 1)
      [] op = \h2e -> pc_add(rol(c, "Absolute"), 2)
      [] op = \h3e -> pc_add(rol(c, "AbsoluteX"), 2)
      [] op = \h6a -> ror_accumulator(c)
      [] op = \h66 -> pc_add(ror(c, "ZeroPage"), 1)
      [] op = \h76 -> pc_add(ror(c, "ZeroPageX"), 1)
      [] op = \h6e -> pc_add(ror(c, "Absolute"), 2)
      [] op = \h7e -> pc_add(ror(c, "AbsoluteX"), 2)
      [] op = \h40 -> rti(c)
      [] op = \h60 -> rts(c)
      [] op = \he9 -> pc_add(sbc(c, "Immediate"), 1)
      [] op = \he5 -> pc_add(sbc(c, "ZeroPage"), 1)
      [] op = \hf5 -> pc_add(sbc(c, "ZeroPageX"), 1)
      [] op = \hed -> pc_add(sbc(c, "Absolute"), 2)
      [] op = \hfd -> pc_add(sbc(c, "AbsoluteX"), 2)
      [] op = \hf9 -> pc_add(sbc(c, "AbsoluteY"), 2)
      [] op = \he1 -> pc_add(sbc(c, "IndirectX"), 1)
      [] op = \hf1 -> pc_add(sbc(c, "IndirectY"), 1)
      [] op = \h38 -> sec(c)
      [] op = \hf8 -> sed(c)
      [] op = \h78 -> sei(c)
      [] op = \h85 -> pc_add(sta(c, "ZeroPage"), 1)
      [] op = \h95 -> pc_add(sta(c, "ZeroPageX"), 1)
      [] op = \h8d -> pc_add(sta(c, "Absolute"), 2)
      [] op = \h9d -> pc_add(sta(c, "AbsoluteX"), 2)
      [] op = \h99 -> pc_add(sta(c, "AbsoluteY"), 2)
      [] op = \h81 -> pc_add(sta(c, "IndirectX"), 1)
      [] op = \h91 -> pc_add(sta(c, "IndirectY"), 1)
      [] op = \h86 -> pc_add(stx(c, "ZeroPage"), 1)
      [] op = \h96 -> pc_add(stx(c, "ZeroPageY"), 1)
      [] op = \h8e -> pc_add(stx(c, "Absolute"), 2)
      [] op = \h84 -> pc_add(sty(c, "ZeroPage"), 1)
      [] op = \h94 -> pc_add(sty(c, "ZeroPageX"), 1)
      [] op = \h8c -> pc_add(sty(c, "Absolute"), 2)
      [] op = \haa -> tax(c)
      [] op = \ha8 -> tay(c)
      [] op = \hba -> tsx(c)
      [] op = \h8a -> txa(c)
      [] op = \h9a -> txs(c)
      [] op = \h98 -> tya(c)
      [] op = \hea -> c
      [] op = \h00 -> [c EXCEPT !.returned = TRUE]
      [] OTHER -> Panic(c, "todo", <<>>)

\* the match with a BRK that pushes PC + 1 and P and sets I, as the 6502 does
DispatchBrkPushes(c, op) ==
    IF op = \h00
    THEN Bind(AddU16(c, c.pc, 1), LAMBDA ret :
         Bind(php(stack_push_u16(ret.c, ret.val)), LAMBDA c1 :
             IF ~Ok(c1) THEN c1
             ELSE [set_flag(c1, INTERRUPT_DISABLE, TRUE) EXCEPT !.returned = TRUE]))
    ELSE OpTable(c, op)

\* the match without its arm for NOP
DispatchMissingArm(c, op) ==
    IF op = \hea THEN Panic(c, "todo", <<>>) ELSE OpTable(c, op)

Dispatch(c, op) == OpTable(c, op)

\* let opscode = self.mem_read(self.pc); self.pc += 1;
\* Fetch without its self.pc += 1
FetchNoAdvance(c) ==
    Bind(mem_read(c, c.pc), LAMBDA o :
        IF ~Ok(o.c) THEN o.c ELSE [o.c EXCEPT !.opscode = o.val])

Fetch(c) ==
    Bind(mem_read(c, c.pc), LAMBDA o :
        IF ~Ok(o.c) THEN o.c ELSE pc_add([o.c EXCEPT !.opscode = o.val], 1))

\* one turn of the loop, up to the call of the callback
LoopBody(c) ==
    Bind(Fetch(c), LAMBDA f :
        IF ~Ok(f) THEN f ELSE Dispatch(f, f.opscode))

----------------------------------------------------------------------------
(* The inputs of the model: what the host pokes before loading, the        *)
(* programs it loads and what its callback does between instructions.      *)

EmptyMemory == [x \in {} |-> 0]

\* a memory image with a zero-page pointer at 0xFF that straddles the page
\* boundary, operands at 0x10 and 0x11, a byte with every bit set in the
\* stack slot above the reset SP, and a BCS at 0xFFFE
PokedMemory ==
    (0 :> 2) @@ (16 :> 85) @@ (17 :> 128) @@ (255 :> 52) @@ (256 :> 3) @@
    (510 :> 255) @@ (564 :> 170) @@ (820 :> 187) @@ (65534 :> 176)

PresetImages == {EmptyMemory, PokedMemory}
PresetA == {0, 10}

\* the other registers before load and reset: as new() leaves them, or set
\* by hand to values that differ from the initial ones
PresetRegs ==
    { [rx |-> 0, ry |-> 0, rs |-> 253, rp |-> 36, pc |-> 0],
      [rx |-> 7, ry |-> 9, rs |-> 16, rp |-> 195, pc |-> 4660] }

\* the end-to-end scenarios of the tests
ScenarioPrograms ==
    { <<\ha9, \h17, \h00>>, <<\ha9, \h05, \h00>>, <<\ha5, \h10, \h00>>,
      <<\ha9, \hc0, \haa, \he8, \h00>>, <<\he8, \he8, \h00>>,
      <<\haa, \h00>>, <<\h69, \h13, \h00>> }

\* the operand bytes of the instruction under test: zero page 0x10 / absolute
\* 0x0010, 0xFF / 0xFFFF / offset -1, absolute 0xFFFE, absolute 0x00FF
OperandPairs == { <<\h10, \h00>>, <<\hff, \hff>>, <<\hfe, \hff>>, <<\hff, \h00>> }

\* a NOP, so that the callback runs once, then any opcode with its operand
ProbePrograms ==
    { <<\hea, op, b[1], b[2]>> : op \in Byte, b \in OperandPairs }

Programs == ScenarioPrograms \cup ProbePrograms

\* what a callback may do to the CPU it is handed: set the registers, or
\* write a memory cell (0xFE random byte, 0xFF key, or the next opcode)
HostEffects ==
    { [kind |-> "regs", ra |-> 85, rx |-> 1, ry |-> 85, rs |-> 253, rp |-> 39],
      [kind |-> "regs", ra |-> 128, rx |-> 255, ry |-> 1, rs |-> 0, rp |-> 232],
      [kind |-> "mem", addr |-> 254, val |-> 7],
      [kind |-> "mem", addr |-> 255, val |-> 119],
      [kind |-> "mem", addr |-> 1537, val |-> 232] }

----------------------------------------------------------------------------
(* The state machine. *)

\* the CPU of the current state as a record, for a build with (checks) or
\* without overflow checks
Cpu(checks) ==
    [ra |-> ra, rx |-> rx, ry |-> ry, rs |-> rs, pc |-> pc, rp |-> rp,
     memory |-> memory, fault |-> "none", diag |-> <<>>,
     checks |-> checks, ovf |-> FALSE, returned |-> FALSE, opscode |-> -1]

\* the builds the run may still be
Builds == IF build = "any" THEN BOOLEAN ELSE {build = "checked"}

BuildAfter(c) ==
    IF c.ovf THEN (IF c.checks THEN "checked" ELSE "unchecked") ELSE build

Registers(c) == [ra |-> c.ra, rx |-> c.rx, ry |-> c.ry, rs |-> c.rs,
                 pc |-> c.pc, rp |-> c.rp, memory |-> c.memory]

NoRun == [ra |-> 0, rx |-> 0, ry |-> 0, rs |-> 0, pc |-> 0, rp |-> 0,
          memory |-> EmptyMemory]

\* CPU::new
Init ==
    /\ ra = 0 /\ rx = 0 /\ ry = 0
    /\ rs = STACK_RESET
    /\ pc = 0
    /\ rp = BREAK2 + INTERRUPT_DISABLE
    /\ memory = EmptyMemory
    /\ status = "created"
    /\ fault = "none" /\ diag = <<>>
    /\ build = "any"
    /\ op_pc = -1 /\ opscode = -1 /\ pre = NoRun
    /\ n_instr = 0 /\ n_cb = 0 /\ n_host = 0
    /\ ra0 = 0
    /\ loaded_program = <<>>
    /\ calls = <<>> /\ rets = <<>>

\* the host sets fields by hand before loading: cpu.ra = v, cpu.mem_write(..)
Prepare ==
    /\ status = "created"
    /\ \E v \in PresetA, img \in PresetImages, r \in PresetRegs :
         /\ ra' = v
         /\ ra0' = v
         /\ rx' = r.rx /\ ry' = r.ry /\ rs' = r.rs /\ rp' = r.rp /\ pc' = r.pc
         /\ memory' = img
    /\ status' = "prepared"
    /\ UNCHANGED <<fault, diag, build, op_pc, opscode,
                   pre, n_instr, n_cb, n_host, loaded_program, calls, rets>>

\* self.memory[0x0600 .. 0x0600 + len].copy_from_slice(&program[..])
CopyFromSlice(mem, at, program) ==
    LET slice == at .. (at + Len(program) - 1)
        byte(x) == IF x \in slice THEN program[x - at + 1] ELSE mem[x]
    IN  [x \in {y \in DOMAIN mem \cup slice : byte(y) # 0} |-> byte(x)]

\* load into a zeroed array instead of the CPU's own
load_into_cleared_memory(c, program) ==
    mem_write_u16([c EXCEPT !.memory = CopyFromSlice(EmptyMemory, LoadAddr, program)],
                  ResetVector, LoadAddr)

load(c, program) ==
    mem_write_u16([c EXCEPT !.memory = CopyFromSlice(c.memory, LoadAddr, program)],
                  ResetVector, LoadAddr)

\* reset without its self.rs = STACK_RESET
reset_keeps_sp(c) ==
    Bind(mem_read_u16([c EXCEPT !.ra = 0, !.rx = 0, !.ry = 0,
                                !.rp = BREAK2 + INTERRUPT_DISABLE],
                      ResetVector), LAMBDA v :
        IF ~Ok(v.c) THEN v.c ELSE [v.c EXCEPT !.pc = v.val])

reset(c) ==
    Bind(mem_read_u16([c EXCEPT !.ra = 0, !.rx = 0, !.ry = 0, !.rs = STACK_RESET,
                                !.rp = BREAK2 + INTERRUPT_DISABLE],
                      ResetVector), LAMBDA v :
        IF ~Ok(v.c) THEN v.c ELSE [v.c EXCEPT !.pc = v.val])

Load ==
    /\ status = "prepared"
    /\ \E prog \in Programs :
         /\ memory' = load(Cpu(FALSE), prog).memory
         /\ loaded_program' = prog
    /\ status' = "loaded"
    /\ UNCHANGED <<ra, rx, ry, rs, pc, rp, fault, diag, build, op_pc, opscode,
                   pre, n_instr, n_cb, n_host, ra0, calls, rets>>

\* reset, after which the host calls run or run_with_callback
Reset ==
    /\ status = "loaded"
    /\ \E c \in {reset(Cpu(FALSE))} :
           /\ ra' = c.ra /\ rx' = c.rx /\ ry' = c.ry /\ rs' = c.rs
           /\ pc' = c.pc /\ rp' = c.rp
    /\ status' = "running"
    /\ UNCHANGED <<memory, fault, diag, build, op_pc, opscode, pre,
                   n_instr, n_cb, n_host, ra0, loaded_program, calls, rets>>

\* the loop with `0x00 => {}` in place of `0x00 => return`
StatusAfterBrkFallsThrough(c) ==
    IF ~Ok(c) THEN "panicked" ELSE "callback"

\* where one turn of the loop leaves the run
StatusAfter(c) ==
    IF ~Ok(c) THEN "panicked"
    ELSE IF c.returned THEN "halted"
    ELSE "callback"

\* one turn of the loop of run_with_callback: fetch, dispatch, operand advance
Step ==
    /\ status = "running"
    /\ n_instr < MaxSteps
    /\ \E checks \in Builds :
         \E c \in {LoopBody(Cpu(checks))} :
             /\ ra' = c.ra /\ rx' = c.rx /\ ry' = c.ry /\ rs' = c.rs
             /\ pc' = c.pc /\ rp' = c.rp /\ memory' = c.memory
             /\ fault' = c.fault /\ diag' = c.diag
             /\ build' = BuildAfter(c)
             /\ status' = StatusAfter(c)
             /\ op_pc' = pc
             /\ opscode' = c.opscode
             /\ pre' = Registers(Cpu(checks))
             /\ n_instr' = IF Ok(c) /\ c.opscode # \h00 THEN n_instr + 1 ELSE n_instr
    /\ UNCHANGED <<n_cb, n_host, ra0, loaded_program, calls, rets>>

\* callback(self) with a callback that leaves the CPU alone (run's |_| {})
CallbackIdle ==
    /\ status = "callback"
    /\ status' = "running"
    /\ n_cb' = n_cb + 1
    /\ UNCHANGED <<ra, rx, ry, rs, pc, rp, memory, fault, diag, build, op_pc,
                   opscode, pre, n_instr, n_host, ra0, loaded_program, calls, rets>>

\* callback(self) with a callback that sets the registers
CallbackRegs ==
    /\ status = "callback"
    /\ n_host < MaxHostWrites
    /\ \E e \in HostEffects :
         /\ e.kind = "regs"
         /\ ra' = e.ra /\ rx' = e.rx /\ ry' = e.ry /\ rs' = e.rs /\ rp' = e.rp
    /\ status' = "running"
    /\ n_cb' = n_cb + 1
    /\ n_host' = n_host + 1
    /\ UNCHANGED <<pc, memory, fault, diag, build, op_pc, opscode, pre,
                   n_instr, ra0, loaded_program, calls, rets>>

\* callback(self) with a callback that calls cpu.mem_write
CallbackWrite ==
    /\ status = "callback"
    /\ n_host < MaxHostWrites
    /\ \E e \in HostEffects :
         /\ e.kind = "mem"
         /\ memory' = mem_write(Cpu(FALSE), e.addr, e.val).memory
    /\ status' = "running"
    /\ n_cb' = n_cb + 1
    /\ n_host' = n_host + 1
    /\ UNCHANGED <<ra, rx, ry, rs, pc, rp, fault, diag, build, op_pc, opscode,
                   pre, n_instr, ra0, loaded_program, calls, rets>>

Next ==
    \/ Prepare
    \/ Load
    \/ Reset
    \/ Step
    \/ CallbackIdle
    \/ CallbackRegs
    \/ CallbackWrite

Spec == Init /\ [][Next]_vars

----------------------------------------------------------------------------
(* A unit harness of the stack helpers: a new CPU whose SP and stack page  *)
(* the harness has set, on which it calls stack_push, stack_pop,           *)
(* stack_push_u16 and stack_pop_u16 directly.                              *)

\* what the harness wrote to the stack page before its calls
StackImage ==
    (256 :> 17) @@ (257 :> 51) @@ (383 :> 127) @@ (384 :> 128) @@
    (510 :> 255) @@ (511 :> 34)

PushBytes == {0, 165}
PushWords == {1538, 65280}

\* the CPU becomes c
Becomes(c) ==
    /\ ra' = c.ra /\ rx' = c.rx /\ ry' = c.ry /\ rs' = c.rs
    /\ pc' = c.pc /\ rp' = c.rp /\ memory' = c.memory
    /\ fault' = c.fault /\ diag' = c.diag
    /\ build' = BuildAfter(c)
    /\ status' = IF Ok(c) THEN "unit" ELSE "panicked"

\* the harness has called f(arg), which returned ret
Called(f, arg, ret) ==
    /\ calls' = Append(calls, [f |-> f, arg |-> arg, sp |-> rs])
    /\ rets' = Append(rets, ret)
    /\ pre' = Registers(Cpu(FALSE))
    /\ UNCHANGED <<op_pc, opscode, n_instr, n_cb, n_host, ra0, loaded_program>>

StackInit ==
    /\ ra = 0 /\ rx = 0 /\ ry = 0
    /\ pc = 0
    /\ rp = BREAK2 + INTERRUPT_DISABLE
    /\ memory = StackImage
    /\ \E sp \in Byte :
         /\ rs = sp
         /\ pre = [ra |-> 0, rx |-> 0, ry |-> 0, rs |-> sp, pc |-> 0,
                   rp |-> BREAK2 + INTERRUPT_DISABLE, memory |-> StackImage]
    /\ status = "unit"
    /\ fault = "none" /\ diag = <<>>
    /\ build = "any"
    /\ op_pc = -1 /\ opscode = -1
    /\ n_instr = 0 /\ n_cb = 0 /\ n_host = 0
    /\ ra0 = 0
    /\ loaded_program = <<>>
    /\ calls = <<>> /\ rets = <<>>

CallStackPush ==
    /\ status = "unit"
    /\ Len(calls) < MaxCalls
    /\ \E b \in PushBytes, checks \in Builds :
         \E c \in {stack_push(Cpu(checks), b)} :
             /\ Becomes(c)
             /\ Called("stack_push", b, 0)

CallStackPop ==
    /\ status = "unit"
    /\ Len(calls) < MaxCalls
    /\ \E checks \in Builds :
         \E r \in {stack_pop(Cpu(checks))} :
             /\ Becomes(r.c)
             /\ Called("stack_pop", 0, r.val)

CallStackPushU16 ==
    /\ status = "unit"
    /\ Len(calls) < MaxCalls
    /\ \E v \in PushWords, checks \in Builds :
         \E c \in {stack_push_u16(Cpu(checks), v)} :
             /\ Becomes(c)
             /\ Called("stack_push_u16", v, 0)

CallStackPopU16 ==
    /\ status = "unit"
    /\ Len(calls) < MaxCalls
    /\ \E checks \in Builds :
         \E r \in {stack_pop_u16(Cpu(checks))} :
             /\ Becomes(r.c)
             /\ Called("stack_pop_u16", 0, r.val)

StackNext ==
    \/ CallStackPush
    \/ CallStackPop
    \/ CallStackPushU16
    \/ CallStackPopU16

StackSpec == StackInit /\ [][StackNext]_vars

----------------------------------------------------------------------------
(* A harness of single instructions: it loads a short program, resets,     *)
(* sets the registers by hand (as the test of TAX sets cpu.ra) and runs.   *)
(* The inputs are drawn so that an instruction meets every value of one    *)
(* operand with the edge values of the other.                              *)

EdgeBytes == {0, 1, 19, 127, 128, 129, 254, 255}

BytePairs == (Byte \X EdgeBytes) \cup (EdgeBytes \X Byte)

\* the values of P with U set and B clear
StatusBytes == {p \in Byte : Contains(p, BREAK2) /\ ~Contains(p, BREAK)}

\* the reset flags, and every flag an instruction can set
FlagsClear == BREAK2 + INTERRUPT_DISABLE
FlagsSet   == NEGATIVE + OVERFLOW + BREAK2 + DECIMAL_MODE + ZERO + CARRY

Case(prog, image, a, x, y, sp, p) ==
    [prog |-> prog, image |-> image, ra |-> a, rx |-> x, ry |-> y,
     rs |-> sp, rp |-> p]

\* CPU::new with the memory image the harness wrote
new(image) ==
    [ra |-> 0, rx |-> 0, ry |-> 0, rs |-> STACK_RESET, pc |-> 0,
     rp |-> BREAK2 + INTERRUPT_DISABLE, memory |-> image,
     fault |-> "none", diag |-> <<>>, checks |-> FALSE, ovf |-> FALSE,
     returned |-> FALSE, opscode |-> -1]

\* load, reset, the registers of case k set by hand
InstrStart(k) ==
    \E c \in {reset(load(new(k.image), k.prog))} :
        /\ ra = k.ra /\ rx = k.rx /\ ry = k.ry /\ rs = k.rs /\ rp = k.rp
        /\ pc = c.pc
        /\ memory = c.memory
        /\ status = "running"
        /\ fault = "none" /\ diag = <<>>
        /\ build = "any"
        /\ op_pc = -1 /\ opscode = -1 /\ pre = NoRun
        /\ n_instr = 0 /\ n_cb = 0 /\ n_host = 0
        /\ ra0 = k.ra
        /\ loaded_program = k.prog
        /\ calls = <<>> /\ rets = <<>>

\* ADC #m; SBC #m
AdcSbcCases ==
    \/ \E v \in BytePairs, c \in {0, 1} :
         InstrStart(Case(<<\h69, v[2], \he9, v[2], \h00>>, EmptyMemory,
                         v[1], 17, 34, STACK_RESET, FlagsClear + c))
    \/ \E v \in EdgeBytes \X EdgeBytes, p \in StatusBytes :
         InstrStart(Case(<<\h69, v[2], \he9, v[2], \h00>>, EmptyMemory,
                         v[1], 17, 34, STACK_RESET, p))

\* SBC #m
SbcCases ==
    \/ \E v \in BytePairs, c \in {0, 1} :
         InstrStart(Case(<<\he9, v[2], \h00>>, EmptyMemory,
                         v[1], 17, 34, STACK_RESET, FlagsClear + c))
    \/ \E v \in EdgeBytes \X EdgeBytes, p \in StatusBytes :
         InstrStart(Case(<<\he9, v[2], \h00>>, EmptyMemory,
                         v[1], 17, 34, STACK_RESET, p))

\* CMP #m, CPX #m, CPY #m: the register compared holds v[1]
CompareCases ==
    \E v \in BytePairs, p \in {FlagsClear, FlagsSet} :
        \/ InstrStart(Case(<<\hc9, v[2], \h00>>, EmptyMemory,
                           v[1], 17, 34, STACK_RESET, p))
        \/ InstrStart(Case(<<\he0, v[2], \h00>>, EmptyMemory,
                           51, v[1], 34, STACK_RESET, p))
        \/ InstrStart(Case(<<\hc0, v[2], \h00>>, EmptyMemory,
                           51, 17, v[1], STACK_RESET, p))

BranchOpcodes == {\h10, \h30, \h50, \h70, \h90, \hb0, \hd0, \hf0}

\* a branch at 0x0600 with every offset; a branch at 0x0000 and one at 0xFFF0,
\* reached by a JMP, with offsets that leave the address space
BranchCases ==
    \E op \in BranchOpcodes, p \in {FlagsClear, FlagsSet} :
        \/ \E d \in Byte :
             InstrStart(Case(<<op, d, \h00>>, EmptyMemory,
                             51, 17, 34, STACK_RESET, p))
        \/ \E d \in {128, 253} :
             InstrStart(Case(<<\h4c, \h00, \h00>>, (0 :> op) @@ (1 :> d),
                             51, 17, 34, STACK_RESET, p))
        \/ \E d \in {127, 14} :
             InstrStart(Case(<<\h4c, \hf0, \hff>>,
                             (65520 :> op) @@ (65521 :> d),
                             51, 17, 34, STACK_RESET, p))

\* PHP; PLP, and a PLP alone that pops any byte
StatusStackCases ==
    \/ \E sp \in {0, 1, 128, STACK_RESET, 255}, p \in StatusBytes :
         InstrStart(Case(<<\h08, \h28, \h00>>, EmptyMemory,
                         51, 17, 34, sp, p))
    \/ \E sp \in {STACK_RESET, 255}, v \in Byte \ {0} :
         InstrStart(Case(<<\h28, \h00>>, (STACK + ((sp + 1) % 256)) :> v,
                         51, 17, 34, sp, FlagsClear))

\* the values of SP a call is made at: the wrap of the stack page included
StackPointers == {0, 1, 128, STACK_RESET, 255}

\* JSR to an RTS, to a NOP and an RTS, and to a JSR to an RTS
CallPrograms ==
    { <<\h20, \h04, \h06, \h00, \h60>>,
      <<\h20, \h04, \h06, \h00, \hea, \h60>>,
      <<\h20, \h04, \h06, \h00, \h20, \h08, \h06, \h60, \h60>> }

\* the calls above with X a copy of SP; a JSR at 0xFFFA, reached by a JMP,
\* that calls an RTS at 0x0010; an RTS alone that pops 0xFFFF or 0x1233
JsrRtsCases ==
    \E sp \in StackPointers, p \in {FlagsClear, FlagsSet} :
        \/ \E prog \in CallPrograms :
             InstrStart(Case(prog, EmptyMemory, 51, sp, 34, sp, p))
        \/ InstrStart(Case(<<\h4c, \hfa, \hff>>,
                           (16 :> \h60) @@ (65530 :> \h20) @@ (65531 :> \h10),
                           51, sp, 34, sp, p))
        \/ \E w \in {<<255, 255>>, <<51, 18>>} :
             InstrStart(Case(<<\h60, \h00>>,
                             ((STACK + ((sp + 1) % 256)) :> w[1]) @@
                             ((STACK + ((sp + 2) % 256)) :> w[2]),
                             51, sp, 34, sp, p))

\* pointers for JMP (addr): at the end, the start and the middle of a page
JumpImage ==
    (0 :> 2) @@ (16 :> 85) @@ (17 :> 128) @@ (254 :> 33) @@ (255 :> 52) @@
    (256 :> 3) @@ (512 :> 7) @@ (528 :> 68) @@ (529 :> 6) @@ (766 :> 153) @@
    (767 :> 64) @@ (768 :> 9) @@ (65280 :> 18) @@ (65281 :> 1) @@
    (65296 :> 154) @@ (65297 :> 188) @@ (65534 :> 86)

\* JMP abs and JMP (addr) with operand words in pages 0x00, 0x02 and 0xFF
JmpCases ==
    \E op \in {\h4c, \h6c}, lo \in {\h00, \h10, \hfe, \hff}, hi \in {\h00, \h02, \hff},
       p \in {FlagsClear, FlagsSet} :
        InstrStart(Case(<<op, lo, hi>>, JumpImage, 51, 17, 34, STACK_RESET, p))

\* RTI with every status byte and two return addresses on the stack, at
\* values of SP that make each of its three pops wrap
RtiCases ==
    \E sp \in {0, 128, 252, STACK_RESET, 254, 255}, v \in Byte,
       w \in {<<\h34, \h12>>, <<\hfe, \hff>>} :
        InstrStart(Case(<<\h40, \h00>>,
                        ((STACK + ((sp + 1) % 256)) :> v) @@
                        ((STACK + ((sp + 2) % 256)) :> w[1]) @@
                        ((STACK + ((sp + 3) % 256)) :> w[2]),
                        51, 17, 34, sp, FlagsClear))

\* BIT $10 and BIT $0310: A holds v[1], the byte tested is v[2]
BitCases ==
    \/ \E v \in BytePairs, p \in {FlagsClear, FlagsSet} :
         InstrStart(Case(<<\h24, \h10, \h00>>, 16 :> v[2],
                         v[1], 17, 34, STACK_RESET, p))
    \/ \E v \in EdgeBytes \X EdgeBytes, p \in {FlagsClear, FlagsSet} :
         InstrStart(Case(<<\h2c, \h10, \h03>>, 784 :> v[2],
                         v[1], 17, 34, STACK_RESET, p))

\* ASL, LSR, ROL, ROR: the accumulator and zero-page forms with every byte
\* and carry, the other memory forms with edge bytes, and ROL followed by
\* ROR on the accumulator and on a zero-page byte
ShiftCases ==
    \E c \in {0, 1} :
        \/ \E op \in {\h0a, \h4a, \h2a, \h6a}, v \in Byte :
             InstrStart(Case(<<op, \h00>>, EmptyMemory,
                             v, 17, 34, STACK_RESET, FlagsClear + c))
        \/ \E op \in {\h06, \h46, \h26, \h66}, v \in Byte :
             InstrStart(Case(<<op, \h10, \h00>>, 16 :> v,
                             51, 17, 34, STACK_RESET, FlagsClear + c))
        \/ \E op \in {\h16, \h56, \h36, \h76}, v \in EdgeBytes :
             InstrStart(Case(<<op, \hf0, \h00>>, 1 :> v,
                             51, 17, 34, STACK_RESET, FlagsClear + c))
        \/ \E op \in {\h0e, \h4e, \h2e, \h6e, \h1e, \h5e, \h3e, \h7e}, v \in EdgeBytes :
             InstrStart(Case(<<op, \hff, \h02, \h00>>, (767 :> v) @@ (784 :> v),
                             51, 17, 34, STACK_RESET, FlagsClear + c))
        \/ \E v \in Byte :
             InstrStart(Case(<<\h2a, \h6a, \h00>>, EmptyMemory,
                             v, 17, 34, STACK_RESET, FlagsClear + c))
        \/ \E v \in Byte :
             InstrStart(Case(<<\h26, \h10, \h66, \h10, \h00>>, 16 :> v,
                             51, 17, 34, STACK_RESET, FlagsClear + c))

\* every opcode that leaves PC to the dispatch, with each operand pair, at
\* 0x0600; ASL $10 at 0xFFFD (the 0x06 that load writes there) and an
\* instruction without operand at 0xFFFE, both reached by a JMP
StraightLineCases ==
    \/ \E op \in Byte \ BranchOpcodes, b \in OperandPairs, p \in {FlagsClear, FlagsSet} :
         InstrStart(Case(<<op, b[1], b[2], \h00>>, PokedMemory,
                         51, 1, 2, STACK_RESET, p))
    \/ InstrStart(Case(<<\h4c, \hfd, \hff>>, (16 :> 85) @@ (65534 :> 16),
                       51, 1, 2, STACK_RESET, FlagsClear))
    \/ \E op \in {\h0a, \h18, \h48, \h8a, \hc8, \hea, \hf8} :
         InstrStart(Case(<<\h4c, \hfe, \hff>>, 65534 :> op,
                         51, 1, 2, STACK_RESET, FlagsClear))

\* STA, STX and STY in every form and TXS, the register stored holding v
StoreOpcodes ==
    { \h85, \h95, \h8d, \h9d, \h99, \h81, \h91,  \h86, \h96, \h8e,
      \h84, \h94, \h8c }

StoreCases ==
    \E b \in OperandPairs, v \in EdgeBytes, p \in {FlagsClear, FlagsSet} :
        \/ \E op \in {\h85, \h95, \h8d, \h9d, \h99, \h81, \h91} :
             InstrStart(Case(<<op, b[1], b[2], \h00>>, PokedMemory,
                             v, 1, 2, STACK_RESET, p))
        \/ \E op \in {\h86, \h96, \h8e, \h9a} :
             InstrStart(Case(<<op, b[1], b[2], \h00>>, PokedMemory,
                             51, v, 2, STACK_RESET, p))
        \/ \E op \in {\h84, \h94, \h8c} :
             InstrStart(Case(<<op, b[1], b[2], \h00>>, PokedMemory,
                             51, 1, v, STACK_RESET, p))

InstrInit ==
    \/ AdcSbcCases
    \/ SbcCases
    \/ CompareCases
    \/ BranchCases
    \/ StatusStackCases
    \/ JsrRtsCases
    \/ JmpCases
    \/ RtiCases
    \/ BitCases
    \/ ShiftCases
    \/ StraightLineCases
    \/ StoreCases

InstrNext ==
    \/ Step
    \/ CallbackIdle

InstrSpec == InstrInit /\ [][InstrNext]_vars

----------------------------------------------------------------------------
(* The snake harness of main: the game is loaded and reset, and the        *)
(* callback of run_with_callback polls the keyboard, writes a random byte  *)
(* to 0x00FE and draws the screen.                                         *)

\* the game the harness loads
game_code ==
    << \h20, \h06, \h06, \h20, \h38, \h06, \h20, \h0d, \h06, \h20, \h2a, \h06,
       \h60, \ha9, \h02, \h85, \h02, \ha9, \h04, \h85, \h03, \ha9, \h11, \h85,
       \h10, \ha9, \h10, \h85, \h12, \ha9, \h0f, \h85, \h14, \ha9, \h04, \h85,
       \h11, \h85, \h13, \h85, \h15, \h60, \ha5, \hfe, \h85, \h00, \ha5, \hfe,
       \h29, \h03, \h18, \h69, \h02, \h85, \h01, \h60, \h20, \h4d, \h06, \h20,
       \h8d, \h06, \h20, \hc3, \h06, \h20, \h19, \h07, \h20, \h20, \h07, \h20,
       \h2d, \h07, \h4c, \h38, \h06, \ha5, \hff, \hc9, \h77, \hf0, \h0d, \hc9,
       \h64, \hf0, \h14, \hc9, \h73, \hf0, \h1b, \hc9, \h61, \hf0, \h22, \h60,
       \ha9, \h04, \h24, \h02, \hd0, \h26, \ha9, \h01, \h85, \h02, \h60, \ha9,
       \h08, \h24, \h02, \hd0, \h1b, \ha9, \h02, \h85, \h02, \h60, \ha9, \h01,
       \h24, \h02, \hd0, \h10, \ha9, \h04, \h85, \h02, \h60, \ha9, \h02, \h24,
       \h02, \hd0, \h05, \ha9, \h08, \h85, \h02, \h60, \h60, \h20, \h94, \h06,
       \h20, \ha8, \h06, \h60, \ha5, \h00, \hc5, \h10, \hd0, \h0d, \ha5, \h01,
       \hc5, \h11, \hd0, \h07, \he6, \h03, \he6, \h03, \h20, \h2a, \h06, \h60,
       \ha2, \h02, \hb5, \h10, \hc5, \h10, \hd0, \h06, \hb5, \h11, \hc5, \h11,
       \hf0, \h09, \he8, \he8, \he4, \h03, \hf0, \h06, \h4c, \haa, \h06, \h4c,
       \h35, \h07, \h60, \ha6, \h03, \hca, \h8a, \hb5, \h10, \h95, \h12, \hca,
       \h10, \hf9, \ha5, \h02, \h4a, \hb0, \h09, \h4a, \hb0, \h19, \h4a, \hb0,
       \h1f, \h4a, \hb0, \h2f, \ha5, \h10, \h38, \he9, \h20, \h85, \h10, \h90,
       \h01, \h60, \hc6, \h11, \ha9, \h01, \hc5, \h11, \hf0, \h28, \h60, \he6,
       \h10, \ha9, \h1f, \h24, \h10, \hf0, \h1f, \h60, \ha5, \h10, \h18, \h69,
       \h20, \h85, \h10, \hb0, \h01, \h60, \he6, \h11, \ha9, \h06, \hc5, \h11,
       \hf0, \h0c, \h60, \hc6, \h10, \ha5, \h10, \h29, \h1f, \hc9, \h1f, \hf0,
       \h01, \h60, \h4c, \h35, \h07, \ha0, \h00, \ha5, \hfe, \h91, \h00, \h60,
       \ha6, \h03, \ha9, \h00, \h81, \h10, \ha2, \h00, \ha9, \h01, \h81, \h10,
       \h60, \ha6, \hff, \hea, \hea, \hca, \hd0, \hfb, \h60 >>

\* the byte handle_user_input writes to 0x00FF for the keys W, S, A and D
KeyCodes == {\h77, \h73, \h61, \h64}

\* rng.gen_range(1..16), with 0 in range
RandomBytesFromZero == 0..15

\* rng.gen_range(1..16)
RandomBytes == 1..15

\* CPU::new(); cpu.load(game_code); cpu.reset(); then run_with_callback
SnakeInit ==
    \E c \in {reset(load(new(EmptyMemory), game_code))} :
        /\ ra = c.ra /\ rx = c.rx /\ ry = c.ry /\ rs = c.rs /\ rp = c.rp
        /\ pc = c.pc
        /\ memory = c.memory
        /\ status = "running"
        /\ fault = "none" /\ diag = <<>>
        /\ build = "any"
        /\ op_pc = -1 /\ opscode = -1 /\ pre = NoRun
        /\ n_instr = 0 /\ n_cb = 0 /\ n_host = 0
        /\ ra0 = 0
        /\ loaded_program = game_code
        /\ calls = <<>> /\ rets = <<>>

\* handle_user_input: no event, or a key whose code goes to 0x00FF
handle_user_input(c) ==
    {c} \cup {mem_write(c, \hff, k) : k \in KeyCodes}

\* the callback of main: keys, then the random byte; drawing and sleeping
\* leave the CPU alone
SnakeCallback ==
    /\ status = "callback"
    /\ \E c \in handle_user_input(Cpu(FALSE)), r \in RandomBytes :
         memory' = mem_write(c, \hfe, r).memory
    /\ status' = "running"
    /\ n_cb' = n_cb + 1
    /\ n_host' = n_host + 1
    /\ UNCHANGED <<ra, rx, ry, rs, pc, rp, fault, diag, build, op_pc, opscode,
                   pre, n_instr, ra0, loaded_program, calls, rets>>

\* handle_user_input on Quit or Escape: std::process::exit(0)
SnakeQuit ==
    /\ status = "callback"
    /\ status' = "exited"
    /\ n_cb' = n_cb + 1
    /\ UNCHANGED <<ra, rx, ry, rs, pc, rp, memory, fault, diag, build, op_pc,
                   opscode, pre, n_instr, n_host, ra0, loaded_program, calls, rets>>

SnakeNext ==
    \/ Step
    \/ SnakeCallback
    \/ SnakeQuit

SnakeSpec == SnakeInit /\ [][SnakeNext]_vars

----------------------------------------------------------------------------
(* Properties. *)

\* the run is past its first fetch
Fetched == op_pc # -1

\* C1: every memory access is in range: no instruction, operand resolution,
\* stack operation, reset or callback access ever faults on a memory index
\* (every address 0x0000..0xFFFF, 0xFFFF included, can be read and written).
C1_MemoryAccessInRange == fault # "index"

\* an untaken branch: the opcode and the flag test that fails
BranchUntaken(op, p) ==
    \/ op = \h90 /\ Contains(p, CARRY)
    \/ op = \hb0 /\ ~Contains(p, CARRY)
    \/ op = \hf0 /\ ~Contains(p, ZERO)
    \/ op = \hd0 /\ Contains(p, ZERO)
    \/ op = \h30 /\ ~Contains(p, NEGATIVE)
    \/ op = \h10 /\ Contains(p, NEGATIVE)
    \/ op = \h50 /\ Contains(p, OVERFLOW)
    \/ op = \h70 /\ ~Contains(p, OVERFLOW)

\* C2: PC and address arithmetic are modular and never an error: no run ends
\* on an arithmetic overflow, an opcode fetch at 0xFFFF takes place (and
\* leaves PC = 0x0000 for the instruction), and an untaken branch whose
\* opcode is at p leaves PC = (p + 2) mod 2^16.
C2_AddressArithmeticWraps ==
    /\ fault # "overflow"
    /\ (Fetched /\ op_pc = 65535) => opscode # -1
    /\ (status \in {"callback", "panicked"} /\ opscode # -1
            /\ BranchUntaken(opscode, pre.rp))
           => (status = "callback" /\ pc = (op_pc + 2) % 65536)

\* C3: set A = v on a new CPU, then load_and_run [0xAA, 0x00] (TAX; BRK):
\* the run ends with X = v.
C3_TaxAfterLoadAndRun ==
    (status = "halted" /\ loaded_program = <<\haa, \h00>> /\ n_host = 0)
        => rx = ra0

\* the CPU right after the fetch of the last opcode: the state it was fetched
\* in, with PC at the first operand byte
AfterFetch ==
    [ra |-> pre.ra, rx |-> pre.rx, ry |-> pre.ry, rs |-> pre.rs,
     pc |-> (op_pc + 1) % 65536, rp |-> pre.rp, memory |-> pre.memory,
     fault |-> "none", diag |-> <<>>, checks |-> FALSE, ovf |-> FALSE,
     returned |-> FALSE, opscode |-> opscode]

\* read8(PC) of the spec, PC at the operand
Operand8 == Cell(pre.memory, (op_pc + 1) % 65536)

\* the 16-bit pointer at zero-page address p, both bytes from page zero
PageZeroPointer(mem, p) == Cell(mem, (p + 1) % 256) * 256 + Cell(mem, p)

\* C4: IndirectX and IndirectY fetch their pointer entirely from page zero:
\* after LDA (zp,X) (0xA1) A holds the byte at the pointer stored at
\* p = (read8(PC) + X) mod 256, low byte at p and high byte at (p + 1) mod 256;
\* after LDA (zp),Y (0xB1) A holds the byte at that pointer, p = read8(PC),
\* plus Y mod 2^16.
C4_IndirectPointerInPageZero ==
    status = "callback" =>
        /\ opscode = \ha1 =>
             ra = Cell(pre.memory,
                       PageZeroPointer(pre.memory, (Operand8 + pre.rx) % 256))
        /\ opscode = \hb1 =>
             ra = Cell(pre.memory,
                       (PageZeroPointer(pre.memory, Operand8) + pre.ry) % 65536)

\* C5: opcodes are dispatched with the addressing mode of the standard
\* matrix: 0x79 leaves the CPU as ADC with absolute,Y addressing does and
\* 0xC4 as CPY with zero-page addressing does.
C5_StandardAddressingModes ==
    status = "callback" =>
        /\ (opscode = \h79 /\ Ok(adc(AfterFetch, "AbsoluteY"))) =>
             /\ ra = adc(AfterFetch, "AbsoluteY").ra
             /\ rp = adc(AfterFetch, "AbsoluteY").rp
        /\ (opscode = \hc4 /\ Ok(cpy(AfterFetch, "ZeroPage"))) =>
             rp = cpy(AfterFetch, "ZeroPage").rp

\* the addressing mode of the memory forms of ROL and ROR
RotateMode(op) ==
    CASE op \in {\h26, \h66} -> "ZeroPage"
      [] op \in {\h36, \h76} -> "ZeroPageX"
      [] op \in {\h2e, \h6e} -> "Absolute"
      [] op \in {\h3e, \h7e} -> "AbsoluteX"

\* the byte a memory-form rotate stored, read back from memory
RotateStored == Cell(memory, get_operand_address(AfterFetch, RotateMode(opscode)).val)

\* C6: after a memory-form ROL or ROR, Z == (stored byte == 0) and
\* N == bit 7 of the stored byte.
C6_MemoryRotateSetsZeroAndNegative ==
    (status = "callback"
        /\ opscode \in {\h26, \h36, \h2e, \h3e, \h66, \h76, \h6e, \h7e})
      => /\ Contains(rp, ZERO) = (RotateStored = 0)
         /\ Contains(rp, NEGATIVE) = (RotateStored >= 128)

\* the documented opcodes of the standard 6502 matrix, by operand length:
\* implied and accumulator forms
NoOperand ==
    { \h00, \h08, \h0a, \h18, \h28, \h2a, \h38, \h40, \h48, \h4a, \h58, \h60,
      \h68, \h6a, \h78, \h88, \h8a, \h98, \h9a, \ha8, \haa, \hb8, \hba, \hc8,
      \hca, \hd8, \he8, \hea, \hf8 }

\* immediate, zero-page, (zp,X), (zp),Y and relative forms
OneByteOperand ==
    { \h01, \h05, \h06, \h09, \h10, \h11, \h15, \h16, \h21, \h24, \h25, \h26,
      \h29, \h30, \h31, \h35, \h36, \h41, \h45, \h46, \h49, \h50, \h51, \h55,
      \h56, \h61, \h65, \h66, \h69, \h70, \h71, \h75, \h76, \h81, \h84, \h85,
      \h86, \h90, \h91, \h94, \h95, \h96, \ha0, \ha1, \ha2, \ha4, \ha5, \ha6,
      \ha9, \hb0, \hb1, \hb4, \hb5, \hb6, \hc0, \hc1, \hc4, \hc5, \hc6, \hc9,
      \hd0, \hd1, \hd5, \hd6, \he0, \he1, \he4, \he5, \he6, \he9, \hf0, \hf1,
      \hf5, \hf6 }

\* absolute, absolute indexed and indirect forms
TwoByteOperand ==
    { \h0d, \h0e, \h19, \h1d, \h1e, \h20, \h2c, \h2d, \h2e, \h39, \h3d, \h3e,
      \h4c, \h4d, \h4e, \h59, \h5d, \h5e, \h6c, \h6d, \h6e, \h79, \h7d, \h7e,
      \h8c, \h8d, \h8e, \h99, \h9d, \hac, \had, \hae, \hb9, \hbc, \hbd, \hbe,
      \hcc, \hcd, \hce, \hd9, \hdd, \hde, \hec, \hed, \hee, \hf9, \hfd, \hfe }

Documented == NoOperand \cup OneByteOperand \cup TwoByteOperand

\* the opcodes that set PC themselves: the branches, JMP, JSR, RTS, RTI, BRK
ControlFlow ==
    { \h10, \h30, \h50, \h70, \h90, \hb0, \hd0, \hf0,
      \h4c, \h6c, \h20, \h60, \h40, \h00 }

OperandBytes(op) ==
    IF op \in TwoByteOperand THEN 2 ELSE IF op \in OneByteOperand THEN 1 ELSE 0

\* the loop took a turn: fetch, dispatch and operand advance
StepTaken == status = "running" /\ status' # "running"

\* the callback ran
CallbackTaken == status = "callback" /\ status' = "running"

C7_Counts ==
    /\ status = "callback" => (n_instr = n_cb + 1 /\ opscode # \h00)
    /\ status # "callback" => n_instr = n_cb
    /\ (Fetched /\ opscode = \h00) => status = "halted"
    /\ status = "halted" => opscode = \h00

C7_Order ==
    /\ status = "halted" => UNCHANGED vars
    /\ n_cb' # n_cb => (CallbackTaken /\ n_cb' = n_cb + 1)
    /\ n_instr' # n_instr => (StepTaken /\ status' = "callback")

\* C7: the callback is invoked exactly once after each executed non-BRK
\* instruction, before the next one, and never after BRK; the run returns
\* exactly when opcode 0x00 is fetched, and a halted run takes no further
\* step.
C7_CallbackOncePerInstruction == []C7_Counts /\ [][C7_Order]_vars

\* two instructions, two callbacks, then BRK
C7_Witness == status = "halted" /\ n_cb = 2 /\ n_instr = 2

C8_PostInstructionState ==
    status = "callback" =>
        /\ opscode \in Documented \ ControlFlow =>
             pc = (op_pc + 1 + OperandBytes(opscode)) % 65536
        /\ opscode = \he8 => rx = (pre.rx + 1) % 256
        /\ opscode = \haa => rx = pre.ra
        /\ opscode = \h85 => Cell(memory, Operand8) = pre.ra

C8_FetchAfterCallback ==
    /\ StepTaken =>
         /\ op_pc' = pc
         /\ pre' = Registers(Cpu(FALSE))
         /\ opscode' # -1 => opscode' = Cell(memory, pc)
    /\ CallbackTaken => (pc' = pc /\ fault' = fault)

\* C8: the callback observes complete post-instruction states: when it is
\* invoked the effects of the instruction are applied and PC is past the
\* operand bytes, at the next opcode; the next fetch reads the registers and
\* the memory as the callback left them.
C8_CallbackObservesCompleteStates ==
    []C8_PostInstructionState /\ [][C8_FetchAfterCallback]_vars

\* the callback wrote INX over the second opcode, and INX is what ran
C8_Witness ==
    /\ status = "callback" /\ n_host = 1
    /\ op_pc = LoadAddr + 1 /\ opscode = \he8 /\ rx = 1
    /\ loaded_program[2] # \he8

\* C9: fetching an undocumented opcode aborts the run with a diagnostic that
\* names the opcode and the PC; the callback is not invoked for it.
C9_UndocumentedOpcodeIsDecodeError ==
    (opscode # -1 /\ opscode \notin Documented) =>
        /\ status = "panicked" /\ fault = "todo"
        /\ n_cb = n_instr
        /\ diag = <<opscode, op_pc>>

\* C10: the 151 documented opcodes are handled by dispatch: the
\* unrecognised-opcode path is taken by the other 105 opcode values and by
\* them only.
C10_DocumentedOpcodesHandled ==
    /\ Cardinality(Documented) = 151
    /\ Cardinality(Byte \ Documented) = 105
    /\ opscode # -1 => (fault = "todo" <=> opscode \notin Documented)

\* a documented opcode, the last arm of the match, ran to the callback
C10_Witness == status = "callback" /\ opscode = \hfe /\ op_pc = LoadAddr + 1

LastCall == calls[Len(calls)]
CallBefore == calls[Len(calls) - 1]
LastRet == rets[Len(rets)]

\* the address of stack slot sp
StackSlot(sp) == 256 + (sp % 256)

\* everything but SP and the stack page is as before the last call
OnlyStackTouched ==
    /\ ra = pre.ra /\ rx = pre.rx /\ ry = pre.ry /\ pc = pre.pc /\ rp = pre.rp
    /\ \A a \in (DOMAIN memory \cup DOMAIN pre.memory) \ (256 .. 511) :
           Cell(memory, a) = Cell(pre.memory, a)

C12_EachCall ==
    calls # <<>> =>
        /\ fault = "none"
        /\ OnlyStackTouched
        /\ LastCall.f = "stack_push" =>
             /\ Cell(memory, StackSlot(pre.rs)) = LastCall.arg
             /\ rs = (pre.rs + 255) % 256
             /\ \A a \in (256 .. 511) \ {StackSlot(pre.rs)} :
                    Cell(memory, a) = Cell(pre.memory, a)
        /\ LastCall.f = "stack_pop" =>
             /\ rs = (pre.rs + 1) % 256
             /\ LastRet = Cell(pre.memory, StackSlot(rs))
             /\ memory = pre.memory
        /\ LastCall.f = "stack_push_u16" =>
             /\ Cell(memory, StackSlot(pre.rs)) = LastCall.arg \div 256
             /\ Cell(memory, StackSlot(pre.rs + 255)) = LastCall.arg % 256
             /\ rs = (pre.rs + 254) % 256
        /\ LastCall.f = "stack_pop_u16" =>
             /\ rs = (pre.rs + 2) % 256
             /\ LastRet = Cell(pre.memory, StackSlot(pre.rs + 2)) * 256
                            + Cell(pre.memory, StackSlot(pre.rs + 1))
             /\ memory = pre.memory

C12_RoundTrip ==
    Len(calls) >= 2 =>
        /\ (CallBefore.f = "stack_push" /\ LastCall.f = "stack_pop") =>
             (LastRet = CallBefore.arg /\ rs = CallBefore.sp)
        /\ (CallBefore.f = "stack_push_u16" /\ LastCall.f = "stack_pop_u16") =>
             (LastRet = CallBefore.arg /\ rs = CallBefore.sp)

C13_BreakOnlyOnStack ==
    /\ status \in {"created", "running", "callback", "halted", "panicked"} =>
         ((rp \div 16) % 2 = 0 /\ (rp \div 32) % 2 = 1)
    /\ (status = "callback" /\ opscode = \h08) =>
         /\ (Cell(memory, 256 + pre.rs) \div 16) % 4 = 3
         /\ rp = pre.rp

\* PLP popped 0xFF, a byte with B set, and left P = 0xEF
C13_Witness ==
    /\ status = "callback" /\ opscode = \h28
    /\ Cell(pre.memory, 256 + ((pre.rs + 1) % 256)) = 255
    /\ rp = 239

\* a status byte with bit 4 cleared and bit 5 set
ClearBSetU(p) == p - 16 * ((p \div 16) % 2) + 32 * (1 - ((p \div 32) % 2))

\* a status byte with bits 4 and 5 set
WithBAndU(p) == p + 16 * (1 - ((p \div 16) % 2)) + 32 * (1 - ((p \div 32) % 2))

C14_PhpPlpEach ==
    status = "callback" =>
        /\ opscode = \h08 =>
             /\ Cell(memory, 256 + pre.rs) = WithBAndU(pre.rp)
             /\ rs = (pre.rs + 255) % 256
             /\ rp = pre.rp
        /\ opscode = \h28 =>
             /\ rp = ClearBSetU(Cell(pre.memory, 256 + ((pre.rs + 1) % 256)))
             /\ rs = (pre.rs + 1) % 256

\* a PLP that runs right after a PHP (pre is still the CPU before the PHP)
C14_PhpThenPlp ==
    (StepTaken /\ opscode = \h08 /\ opscode' = \h28 /\ op_pc' = op_pc + 1
        /\ rs = (pre.rs + 255) % 256)
      => (status' = "callback" /\ rp' = pre.rp /\ rs' = pre.rs)

\* C14: PHP writes P | B | U at 0x0100 + SP, decrements SP and leaves P
\* unchanged; PLP sets P to the popped byte with B cleared and U set; PHP
\* immediately followed by PLP restores both P and SP.
C14_PhpPlpRestore == []C14_PhpPlpEach /\ [][C14_PhpThenPlp]_vars

\* PHP; PLP run at SP = 0x00 with every flag set: SP wrapped to 0xFF and is
\* back at 0x00, P is back at 0xEF
C14_Witness ==
    /\ status = "callback" /\ opscode = \h28 /\ op_pc = LoadAddr + 1
    /\ loaded_program = <<\h08, \h28, \h00>>
    /\ rs = 0 /\ rp = 239 /\ pre.rs = 255

\* the opcodes that write A: LDA, TXA, TYA, PLA, ADC, SBC, AND, ORA, EOR and
\* the accumulator shifts and rotates
WritesA ==
    { \ha9, \ha5, \hb5, \had, \hbd, \hb9, \ha1, \hb1, \h8a, \h98, \h68,
      \h69, \h65, \h75, \h6d, \h7d, \h79, \h61, \h71,
      \he9, \he5, \hf5, \hed, \hfd, \hf9, \he1, \hf1,
      \h29, \h25, \h35, \h2d, \h3d, \h39, \h21, \h31,
      \h09, \h05, \h15, \h0d, \h1d, \h19, \h01, \h11,
      \h49, \h45, \h55, \h4d, \h5d, \h59, \h41, \h51,
      \h0a, \h4a, \h2a, \h6a }

\* LDX, TAX, TSX, INX, DEX
WritesX == { \ha2, \ha6, \hb6, \hae, \hbe, \haa, \hba, \he8, \hca }

\* LDY, TAY, INY, DEY
WritesY == { \ha0, \ha4, \hb4, \hac, \hbc, \ha8, \hc8, \h88 }

\* INC and DEC
IncDecMemory == { \he6, \hf6, \hee, \hfe, \hc6, \hd6, \hce, \hde }

IncDecMode(op) ==
    CASE op \in {\he6, \hc6} -> "ZeroPage"
      [] op \in {\hf6, \hd6} -> "ZeroPageX"
      [] op \in {\hee, \hce} -> "Absolute"
      [] op \in {\hfe, \hde} -> "AbsoluteX"

\* the address INC or DEC wrote
IncDecAddress == get_operand_address(AfterFetch, IncDecMode(opscode)).val

\* Z and N of the live P are those of the byte v
ZeroAndNegativeOf(v) ==
    /\ ((rp \div 2) % 2 = 1) = (v = 0)
    /\ ((rp \div 128) % 2 = 1) = (v >= 128)

\* C15: after every instruction that writes A, X or Y, and after INC/DEC on
\* memory, Z == (written value == 0) and N == bit 7 of the written value, the
\* value being computed with 8-bit wrap (INX on 0xFF gives 0x00 with Z = 1).
C15_ZeroAndNegativeFollowResult ==
    status = "callback" =>
        /\ opscode \in WritesA => ZeroAndNegativeOf(ra)
        /\ opscode \in WritesX => ZeroAndNegativeOf(rx)
        /\ opscode \in WritesY => ZeroAndNegativeOf(ry)
        /\ opscode \in IncDecMemory =>
             ZeroAndNegativeOf(Cell(memory, IncDecAddress))
        /\ opscode = \he8 => rx = (pre.rx + 1) % 256
        /\ opscode = \hc8 => ry = (pre.ry + 1) % 256
        /\ opscode = \hca => rx = (pre.rx + 255) % 256
        /\ opscode = \h88 => ry = (pre.ry + 255) % 256
        /\ opscode \in {\he6, \hf6, \hee, \hfe} =>
             Cell(memory, IncDecAddress)
                 = (Cell(pre.memory, IncDecAddress) + 1) % 256
        /\ opscode \in {\hc6, \hd6, \hce, \hde} =>
             Cell(memory, IncDecAddress)
                 = (Cell(pre.memory, IncDecAddress) + 255) % 256
        /\ (loaded_program = <<\ha9, \hc0, \haa, \he8, \h00>> /\ n_host = 0
                /\ n_instr = 3) =>
             (rx = 193 /\ (rp \div 128) % 2 = 1 /\ (rp \div 2) % 2 = 0)

\* INX on X = 0xFF left X = 0x00 with Z set and N clear
C15_Witness ==
    /\ status = "callback" /\ opscode = \he8
    /\ pre.rx = 255 /\ rx = 0
    /\ (rp \div 2) % 2 = 1 /\ (rp \div 128) % 2 = 0

\* bit 0 of a status byte
CarryOf(p) == p % 2

\* the flags of the live P
FlagC == rp % 2 = 1
FlagV == (rp \div 64) % 2 = 1

\* A + M + C of an ADC #m that has just run
AdcSum == pre.ra + Operand8 + CarryOf(pre.rp)

\* X, Y, SP, memory and the flags I, D (and B, U) are as before the instruction
RestUnchanged ==
    /\ rx = pre.rx /\ ry = pre.ry /\ rs = pre.rs
    /\ memory = pre.memory
    /\ (rp \div 4) % 16 = (pre.rp \div 4) % 16

\* C16: ADC with s = A + M + C leaves A' = s mod 256, C' = (s > 0xFF),
\* V' = (((M xor A') and (A xor A') and 0x80) != 0) with the A of before, Z
\* and N from A', and X, Y, SP, memory, I and D unchanged; from A = 0, C = 0
\* ADC #m yields A = m, C = 0, V = 0.
C16_AdcArithmetic ==
    (status = "callback" /\ opscode = \h69) =>
        /\ ra = AdcSum % 256
        /\ FlagC = (AdcSum > 255)
        /\ FlagV = (/\ (Operand8 >= 128) # (ra >= 128)
                    /\ (pre.ra >= 128) # (ra >= 128))
        /\ ZeroAndNegativeOf(ra)
        /\ RestUnchanged
        /\ (pre.ra = 0 /\ CarryOf(pre.rp) = 0) =>
             (ra = Operand8 /\ ~FlagC /\ ~FlagV)

\* 0x7F + 0x01: A = 0x80 with V and N set, C clear
C16_Witness ==
    /\ status = "callback" /\ opscode = \h69
    /\ pre.ra = 127 /\ Operand8 = 1 /\ CarryOf(pre.rp) = 0
    /\ ra = 128 /\ FlagV /\ ~FlagC

\* A + (M xor 0xFF) + C of an SBC #m that has just run
SbcSum == pre.ra + (255 - Operand8) + CarryOf(pre.rp)

\* A - M - (1 - C) of that SBC
SbcDifference == pre.ra - Operand8 - (1 - CarryOf(pre.rp))

\* C17: SBC(M) produces the A, C, V, Z, N of ADC(M xor 0xFF):
\* A' = (A - M - (1 - C)) mod 256 and C' = 1 exactly when no borrow occurred.
C17_SbcIsAdcOfComplement ==
    (status = "callback" /\ opscode = \he9) =>
        /\ ra = SbcSum % 256
        /\ FlagC = (SbcSum > 255)
        /\ FlagV = (/\ (255 - Operand8 >= 128) # (ra >= 128)
                    /\ (pre.ra >= 128) # (ra >= 128))
        /\ ZeroAndNegativeOf(ra)
        /\ ra = (SbcDifference + 256) % 256
        /\ FlagC = (SbcDifference >= 0)

\* 0x00 - 0x80 with no borrow: A = 0x80, V set, C clear
C17_Witness ==
    /\ status = "callback" /\ opscode = \he9
    /\ pre.ra = 0 /\ Operand8 = 128 /\ CarryOf(pre.rp) = 1
    /\ ra = 128 /\ FlagV /\ ~FlagC

\* the program is ADC #m; SBC #m and the SBC has just run
AdcThenSbc ==
    /\ status = "callback" /\ opscode = \he9 /\ op_pc = LoadAddr + 2
    /\ Len(loaded_program) = 5 /\ loaded_program[1] = \h69
    /\ loaded_program[2] = loaded_program[4]

\* C18 as stated: ADC(M) then SBC(M), the carry left by ADC passed into SBC,
\* restores A to the value it had before the ADC.
C18_AdcThenSbcRestoresA == AdcThenSbc => ra = ra0

\* the step in which SBC #m runs right after ADC #m (pre is still the CPU
\* before the ADC, P the one the ADC left)
SbcRunsAfterAdc ==
    /\ StepTaken /\ status' = "callback"
    /\ opscode = \h69 /\ opscode' = \he9 /\ op_pc' = op_pc + 2
    /\ Cell(memory, op_pc' + 1) = Cell(memory, op_pc + 1)

\* C18 (amended): ADC(M) then SBC(M), the carry C' left by ADC passed into
\* SBC, leaves A'' = (A + C + C' - 1) mod 256, C the carry before the ADC:
\* A is restored exactly when one of C and C' is set and the other is clear.
C18_AdcThenSbcOffByCarries ==
    [][SbcRunsAfterAdc =>
         /\ ra' = (pre.ra + CarryOf(pre.rp) + CarryOf(rp) + 255) % 256
         /\ (ra' = pre.ra) = (CarryOf(pre.rp) + CarryOf(rp) = 1)]_vars

\* 0xFF + 0x01 with C = 0 carried out, and the SBC brought A back to 0xFF
C18_Witness ==
    /\ AdcThenSbc
    /\ ra0 = 255 /\ Operand8 = 1 /\ pre.ra = 0 /\ CarryOf(pre.rp) = 1
    /\ ra = 255

\* the register CMP #m, CPX #m or CPY #m compares, as it was before
ComparedRegister ==
    CASE opscode = \hc9 -> pre.ra
      [] opscode = \he0 -> pre.rx
      [] opscode = \hc0 -> pre.ry

\* C19: CMP/CPX/CPY with register R and operand M set C = (M <= R),
\* Z = (R == M) and N = bit 7 of (R - M) mod 256 and change nothing else:
\* A, X, Y, SP, V, I, D and memory are as before.
C19_CompareSetsCarryZeroNegative ==
    (status = "callback" /\ opscode \in {\hc9, \he0, \hc0}) =>
        /\ FlagC = (Operand8 <= ComparedRegister)
        /\ ((rp \div 2) % 2 = 1) = (ComparedRegister = Operand8)
        /\ ((rp \div 128) % 2 = 1)
               = ((ComparedRegister - Operand8 + 256) % 256 >= 128)
        /\ ra = pre.ra /\ rx = pre.rx /\ ry = pre.ry /\ rs = pre.rs
        /\ memory = pre.memory
        /\ (rp \div 4) % 32 = (pre.rp \div 4) % 32

\* CPX #$01 with X = 0x00: C clear, Z clear, N set
C19_Witness ==
    /\ status = "callback" /\ opscode = \he0
    /\ pre.rx = 0 /\ Operand8 = 1
    /\ ~FlagC /\ (rp \div 2) % 2 = 0 /\ (rp \div 128) % 2 = 1

\* the signed offset d of the branch that has just run, its byte at p = op_pc + 1
BranchOffset ==
    IF Operand8 >= 128 THEN Operand8 - 256 ELSE Operand8

\* where the branch must leave PC
BranchTarget ==
    IF BranchUntaken(opscode, pre.rp)
    THEN (op_pc + 1 + 1) % 65536
    ELSE (op_pc + 1 + 1 + BranchOffset + 65536) % 65536

\* C20: a branch whose offset byte at p holds the signed offset d leaves
\* PC = (p + 1 + d) mod 2^16 if its flag condition holds, for every d in
\* -128..127, and PC = p + 1 otherwise; dispatch adds no operand advance and
\* no register, flag or memory byte changes.
C20_BranchTargets ==
    (status = "callback" /\ opscode \in BranchOpcodes) =>
        /\ pc = BranchTarget
        /\ ra = pre.ra /\ rx = pre.rx /\ ry = pre.ry /\ rs = pre.rs
        /\ rp = pre.rp
        /\ memory = pre.memory

\* a branch at 0xFFF0 taken with d = +127 landed at 0x0071, past the top of
\* the address space
C20_Witness ==
    /\ status = "callback" /\ opscode \in BranchOpcodes
    /\ op_pc = 65520 /\ Operand8 = 127
    /\ ~BranchUntaken(opscode, pre.rp)
    /\ pc = 113

\* the memories m1 and m2 hold the same bytes outside the addresses in S
SameExcept(m1, m2, S) ==
    \A a \in (DOMAIN m1 \cup DOMAIN m2) \ S : Cell(m1, a) = Cell(m2, a)

\* the 16-bit value on top of the stack before the last instruction, its low
\* byte at the lower stack slot
TopWord ==
    Cell(pre.memory, STACK + ((pre.rs + 1) % 256))
      + 256 * Cell(pre.memory, STACK + ((pre.rs + 2) % 256))

\* A, X, Y and P are as before the instruction
RegistersKept ==
    ra = pre.ra /\ rx = pre.rx /\ ry = pre.ry /\ rp = pre.rp

\* JSR at q = op_pc: q + 2 pushed high byte first, PC the operand word
JsrEffect ==
    (status = "callback" /\ opscode = \h20) =>
        /\ Cell(memory, STACK + pre.rs) = (op_pc + 2) \div 256
        /\ Cell(memory, STACK + ((pre.rs + 255) % 256)) = (op_pc + 2) % 256
        /\ rs = (pre.rs + 254) % 256
        /\ pc = Cell(pre.memory, op_pc + 1) + 256 * Cell(pre.memory, op_pc + 2)
        /\ SameExcept(memory, pre.memory,
                      {STACK + pre.rs, STACK + ((pre.rs + 255) % 256)})
        /\ RegistersKept

\* RTS: PC the popped word plus one
RtsEffect ==
    (status = "callback" /\ opscode = \h60) =>
        /\ pc = (TopWord + 1) % 65536
        /\ rs = (pre.rs + 2) % 256
        /\ memory = pre.memory
        /\ RegistersKept

\* the RTS of a callee that left the stack balanced resumes after the JSR at
\* 0x0600 with SP as before it (X holds that SP); of two nested calls the
\* inner one, made at 0x0604, returns first and the outer one after it
JsrRtsRoundTrip ==
    (status = "callback" /\ opscode = \h60 /\ loaded_program \in CallPrograms) =>
        IF Len(loaded_program) = 9 /\ op_pc = LoadAddr + 8
        THEN pc = LoadAddr + 7 /\ rs = (rx + 254) % 256
        ELSE pc = LoadAddr + 3 /\ rs = rx

\* C21: JSR at q pushes q + 2, high byte first, and sets PC to the operand
\* word; RTS sets PC to the popped word plus one; so the RTS of a callee that
\* left the stack balanced resumes at q + 3 with SP as before the JSR, and
\* nested JSRs return in last-in-first-out order.
C21_JsrRtsRoundTrip == JsrEffect /\ RtsEffect /\ JsrRtsRoundTrip

\* two nested calls made at SP = 0x00 have both returned: the outer RTS, at
\* 0x0607, resumed at 0x0603 and SP is 0x00 again
C21_Witness ==
    /\ status = "callback" /\ opscode = \h60 /\ op_pc = LoadAddr + 7
    /\ Len(loaded_program) = 9
    /\ pc = LoadAddr + 3 /\ rs = 0 /\ rx = 0 /\ n_instr = 4

\* the word at address a, its high byte from a + 1
WordAt(mem, a) == Cell(mem, a) + 256 * Cell(mem, (a + 1) % 65536)

\* the word at address a, its high byte from the start of a's page
WordInPage(mem, a) == Cell(mem, a) + 256 * Cell(mem, (a \div 256) * 256)

\* the operand word of the last instruction
Operand16 == WordAt(pre.memory, (op_pc + 1) % 65536)

\* C22: JMP absolute sets PC to the operand word; JMP indirect sets PC to
\* the word at the operand word addr, its high byte taken from addr & 0xFF00
\* if the low byte of addr is 0xFF; neither changes registers, flags, SP or
\* memory, and dispatch adds no operand advance.
C22_JumpTargets ==
    (status = "callback" /\ opscode \in {\h4c, \h6c}) =>
        /\ opscode = \h4c => pc = Operand16
        /\ opscode = \h6c =>
             pc = IF Operand16 % 256 = 255
                  THEN WordInPage(pre.memory, Operand16)
                  ELSE WordAt(pre.memory, Operand16)
        /\ RegistersKept /\ rs = pre.rs /\ memory = pre.memory

\* JMP ($02FF) took its low byte from 0x02FF and its high byte from 0x0200,
\* not from 0x0300
C22_Witness ==
    /\ status = "callback" /\ opscode = \h6c /\ Operand16 = 767
    /\ pc = 64 + 256 * 7
    /\ WordAt(pre.memory, 767) = 64 + 256 * 9

\* the byte in the stack slot i places above SP, as before the instruction
StackByte(i) == Cell(pre.memory, STACK + ((pre.rs + i) % 256))

\* C23: RTI pops one byte into P, with B cleared and U set, then a 16-bit
\* value, low byte first, into PC with no +1; SP rises by 3 modulo 256 and
\* A, X, Y and memory are unchanged.
C23_RtiRestoresStatusAndPc ==
    (status = "callback" /\ opscode = \h40) =>
        /\ rp = ClearBSetU(StackByte(1))
        /\ pc = StackByte(2) + 256 * StackByte(3)
        /\ rs = (pre.rs + 3) % 256
        /\ ra = pre.ra /\ rx = pre.rx /\ ry = pre.ry
        /\ memory = pre.memory

\* RTI at SP = 0xFE: the status byte 0xDF came from 0x01FF, the address
\* 0x1234 from 0x0100 and 0x0101, and SP is 0x01
C23_Witness ==
    /\ status = "callback" /\ opscode = \h40
    /\ pre.rs = 254 /\ StackByte(1) = 223
    /\ rp = 239 /\ pc = 4660 /\ rs = 1

\* bit i of the byte v
BitOf(v, i) == (v \div (2 ^ i)) % 2

\* the byte BIT tests: the one at its zero-page or absolute operand address
BitOperand ==
    IF opscode = \h24 THEN Cell(pre.memory, Operand8)
    ELSE Cell(pre.memory, Operand16)

\* C24: BIT with operand M sets Z = ((A and M) == 0), V = bit 6 of M and
\* N = bit 7 of M, and leaves A, X, Y, SP, C, I, D and memory unchanged.
C24_BitTestsOperand ==
    (status = "callback" /\ opscode \in {\h24, \h2c}) =>
        /\ (BitOf(rp, 1) = 1) =
             (\A i \in 0..7 : BitOf(pre.ra, i) = 0 \/ BitOf(BitOperand, i) = 0)
        /\ BitOf(rp, 6) = BitOf(BitOperand, 6)
        /\ BitOf(rp, 7) = BitOf(BitOperand, 7)
        /\ \A i \in {0, 2, 3, 4, 5} : BitOf(rp, i) = BitOf(pre.rp, i)
        /\ ra = pre.ra /\ rx = pre.rx /\ ry = pre.ry /\ rs = pre.rs
        /\ memory = pre.memory

\* BIT with A = 0x80 and M = 0x40, every flag set before: A and M share no
\* bit, so Z stays set; V is set from bit 6 of M and N cleared from bit 7
C24_Witness ==
    /\ status = "callback" /\ opscode = \h24
    /\ pre.ra = 128 /\ BitOperand = 64 /\ pre.rp = FlagsSet
    /\ rp = FlagsSet - NEGATIVE

\* the shifts and rotates: ASL, ROL, LSR, ROR in their five forms
ShiftOpcodes ==
    { \h0a, \h06, \h16, \h0e, \h1e,  \h2a, \h26, \h36, \h2e, \h3e,
      \h4a, \h46, \h56, \h4e, \h5e,  \h6a, \h66, \h76, \h6e, \h7e }

\* the form of a shift opcode, from its low five bits
ShiftMode(op) ==
    CASE op % 32 = 10 -> "Accumulator"
      [] op % 32 = 6  -> "ZeroPage"
      [] op % 32 = 22 -> "ZeroPageX"
      [] op % 32 = 14 -> "Absolute"
      [] op % 32 = 30 -> "AbsoluteX"

\* the address a memory-form shift works on
ShiftAddress == get_operand_address(AfterFetch, ShiftMode(opscode)).val

\* the byte the last shift took as input and the byte it left
ShiftInput ==
    IF ShiftMode(opscode) = "Accumulator" THEN pre.ra
    ELSE Cell(pre.memory, ShiftAddress)

ShiftResult ==
    IF ShiftMode(opscode) = "Accumulator" THEN ra
    ELSE Cell(memory, ShiftAddress)

\* result and carry of each shift and rotate, v the input and c the carry
\* of before
ShiftEach ==
    (status = "callback" /\ opscode \in ShiftOpcodes) =>
        CASE opscode \div 32 = 0 ->
               /\ ShiftResult = (ShiftInput * 2) % 256
               /\ CarryOf(rp) = BitOf(ShiftInput, 7)
          [] opscode \div 32 = 2 ->
               /\ ShiftResult = ShiftInput \div 2
               /\ CarryOf(rp) = BitOf(ShiftInput, 0)
          [] opscode \div 32 = 1 ->
               /\ ShiftResult = ((ShiftInput * 2) % 256) + CarryOf(pre.rp)
               /\ CarryOf(rp) = BitOf(ShiftInput, 7)
          [] opscode \div 32 = 3 ->
               /\ ShiftResult = (ShiftInput \div 2) + 128 * CarryOf(pre.rp)
               /\ CarryOf(rp) = BitOf(ShiftInput, 0)

\* the step in which a ROR runs right after a ROL of the same form on the
\* same operand (pre is still the CPU before the ROL)
RorRunsAfterRol ==
    /\ StepTaken /\ status' = "callback"
    /\ opscode \in {\h2a, \h26, \h36, \h2e, \h3e} /\ opscode' = opscode + 64
    /\ op_pc' = pc
    /\ \A i \in 1..OperandBytes(opscode) :
           Cell(memory, op_pc' + i) = Cell(pre.memory, op_pc + i)

RolThenRor ==
    RorRunsAfterRol =>
        /\ CarryOf(rp') = CarryOf(pre.rp)
        /\ IF ShiftMode(opscode) = "Accumulator" THEN ra' = pre.ra
           ELSE Cell(memory', ShiftAddress) = Cell(pre.memory, ShiftAddress)

\* C25: for every input byte v and prior carry c, in the accumulator and
\* the memory forms, ASL leaves (v * 2) mod 256 with C = bit 7 of v, LSR
\* v div 2 with C = bit 0 of v, ROL ((v * 2) mod 256) + c with C = bit 7 of
\* v, ROR (v div 2) + 128 * c with C = bit 0 of v; so ROL followed by ROR
\* restores both the value and the carry.
C25_ShiftsAndRotates == []ShiftEach /\ [][RolThenRor]_vars

\* ROL $10; ROR $10 on 0x81 with C clear: the ROL left 0x02 with C set and
\* the ROR brought back 0x81 with C clear
C25_Witness ==
    /\ status = "callback" /\ opscode = \h66 /\ op_pc = LoadAddr + 2
    /\ loaded_program = <<\h26, \h10, \h66, \h10, \h00>>
    /\ ShiftInput = 2 /\ CarryOf(pre.rp) = 1
    /\ ShiftResult = 129 /\ CarryOf(rp) = 0

\* the random byte cell of the snake harness
RandomCell == Cell(memory, \hfe)

\* C26 as stated: under the snake harness, before each instruction the CPU
\* executes, the first after reset included, 0x00FE holds a host-written
\* byte in the range 1..15.
C26_RandomByteBeforeEveryStep ==
    (status = "running" /\ loaded_program = game_code) => RandomCell \in 1..15

\* C26 (amended): under the snake harness, before each instruction but the
\* first after reset 0x00FE holds a host-written byte in the range 1..15;
\* before the first, no callback has run and 0x00FE holds the 0 of new().
C26_RandomByteAfterFirstStep ==
    (status = "running" /\ loaded_program = game_code) =>
        IF n_cb = 0 THEN RandomCell = 0 ELSE RandomCell \in 1..15

\* the third instruction is about to run, the callback has written 15 to
\* 0x00FE and the key W to 0x00FF
C26_Witness ==
    /\ status = "running" /\ loaded_program = game_code
    /\ n_instr = 2 /\ n_cb = 2
    /\ RandomCell = 15 /\ Cell(memory, \hff) = \h77

\* the opcodes whose PC the dispatch advances: all but the branches, JMP,
\* JSR, RTS, RTI and BRK
StraightLine == Documented \ ControlFlow

\* where such an instruction, fetched at op_pc, must leave PC
PastOperand == (op_pc + 1 + OperandBytes(opscode)) % 65536

\* after the instruction PC is past its operand; an immediate load has
\* taken the byte at p + 1
PcPastOperand ==
    (status = "callback" /\ opscode \in StraightLine) =>
        /\ pc = PastOperand
        /\ opscode = \ha9 => ra = Operand8
        /\ opscode = \ha2 => rx = Operand8
        /\ opscode = \ha0 => ry = Operand8

\* the next opcode is fetched right behind the operand
NextFetchPastOperand ==
    (StepTaken /\ opscode \in StraightLine) => op_pc' = PastOperand

\* C27: for every opcode other than the branches, JMP, JSR, RTS, RTI and BRK,
\* fetched at p, the PC after the instruction is (p + 1 + n) mod 2^16, n the
\* operand byte count of its addressing mode; the operand is resolved with
\* PC = p + 1, before the advance, so straight-line code is decoded at the
\* correct byte boundaries.
C27_PcAdvancesPastOperand == []PcPastOperand /\ [][NextFetchPastOperand]_vars

\* LDA $FFFE (AD FE FF) at 0x0600 loaded the byte at 0xFFFE and left PC at
\* 0x0603
C27_Witness ==
    /\ status = "callback" /\ opscode = \had /\ op_pc = LoadAddr
    /\ Operand16 = 65534 /\ ra = 176
    /\ pc = LoadAddr + 3

\* the addresses load writes: the program area and the reset vector
LoadArea(program) ==
    (LoadAddr .. (LoadAddr + Len(program) - 1)) \cup {ResetVector, ResetVector + 1}

\* load leaves every byte outside the program area and the reset vector
LoadFrame ==
    (status = "prepared" /\ status' = "loaded") =>
        /\ SameExcept(memory', memory, LoadArea(loaded_program'))
        /\ \A i \in 1..Len(loaded_program') :
               Cell(memory', LoadAddr + i - 1) = loaded_program'[i]
        /\ WordAt(memory', ResetVector) = LoadAddr

\* reset writes no byte
ResetFrame ==
    (status = "loaded" /\ status' = "running") => memory' = memory

\* LDA $10; BRK loads the byte the host wrote at 0x0010 before load_and_run
LdaSeesPreload ==
    (status = "callback" /\ opscode = \ha5 /\ loaded_program = <<\ha5, \h10, \h00>>) =>
        \E img \in PresetImages :
            /\ SameExcept(pre.memory, img, LoadArea(loaded_program))
            /\ ra = Cell(img, 16)

\* C28: load changes only memory bytes 0x0600..0x0600+len-1 and
\* 0xFFFC..0xFFFD and reset changes no memory byte: a byte written elsewhere
\* before load_and_run is still present when the program runs, so LDA $10
\* then loads it.
C28_LoadAndResetKeepMemory ==
    []LdaSeesPreload /\ [][LoadFrame /\ ResetFrame]_vars

\* mem[0x10] = 0x55 was written before load_and_run and LDA $10 loaded it
C28_Witness ==
    /\ status = "callback" /\ opscode = \ha5
    /\ loaded_program = <<\ha5, \h10, \h00>>
    /\ Cell(memory, 16) = 85 /\ Cell(memory, 65534) = 176
    /\ ra = 85

\* the addressing mode of a store opcode
StoreMode(op) ==
    CASE op \in {\h85, \h86, \h84} -> "ZeroPage"
      [] op \in {\h95, \h94}       -> "ZeroPageX"
      [] op = \h96                 -> "ZeroPageY"
      [] op \in {\h8d, \h8e, \h8c} -> "Absolute"
      [] op = \h9d                 -> "AbsoluteX"
      [] op = \h99                 -> "AbsoluteY"
      [] op = \h81                 -> "IndirectX"
      [] op = \h91                 -> "IndirectY"

\* the effective address of the store that has just run
StoreAddress == get_operand_address(AfterFetch, StoreMode(opscode)).val

\* the register a store opcode writes, as it was before
StoredRegister ==
    IF opscode \in {\h86, \h96, \h8e} THEN pre.rx
    ELSE IF opscode \in {\h84, \h94, \h8c} THEN pre.ry
    ELSE pre.ra

\* C29: STA, STX and STY write exactly one memory byte, the effective address
\* receiving A, X or Y, and TXS copies X to SP; none of the four changes any
\* bit of P, any other register or any other memory byte.
C29_StoresTouchOneByte ==
    /\ (status = "callback" /\ opscode \in StoreOpcodes) =>
         /\ Cell(memory, StoreAddress) = StoredRegister
         /\ SameExcept(memory, pre.memory, {StoreAddress})
         /\ RegistersKept /\ rs = pre.rs
    /\ (status = "callback" /\ opscode = \h9a) =>
         /\ rs = pre.rx
         /\ memory = pre.memory
         /\ RegistersKept

\* STA $0010,Y with A = 0x80, Y = 2 and every flag set: 0x0012 holds 0x80
\* and P is as before
C29_Witness ==
    /\ status = "callback" /\ opscode = \h99 /\ StoreAddress = 18
    /\ pre.ra = 128 /\ pre.rp = FlagsSet /\ Cell(pre.memory, 18) = 0
    /\ Cell(memory, 18) = 128 /\ rp = FlagsSet

\* ADC and SBC in their eight forms
AdcSbcOpcodes ==
    { \h69, \h65, \h75, \h6d, \h7d, \h79, \h61, \h71,
      \he9, \he5, \hf5, \hed, \hfd, \hf9, \he1, \hf1 }

\* the opcodes that may change D: SED, CLD, PLP and RTI
DecimalWriters == {\hf8, \hd8, \h28, \h40}

\* the byte p with bit 3, the decimal flag, inverted
ToggleDecimal(p) == IF BitOf(p, 3) = 1 THEN p - 8 ELSE p + 8

\* what the last instruction yields from the state that differs from the one
\* it was fetched in only in D
DecimalTwin ==
    Dispatch([AfterFetch EXCEPT !.rp = ToggleDecimal(pre.rp)], opscode)

\* ADC and SBC yield the same A, C, V, Z and N from both states, and D keeps
\* its value in both
DecimalIgnored ==
    (status = "callback" /\ opscode \in AdcSbcOpcodes) =>
        /\ Ok(DecimalTwin)
        /\ DecimalTwin.ra = ra
        /\ \A i \in {0, 1, 6, 7} : BitOf(DecimalTwin.rp, i) = BitOf(rp, i)
        /\ BitOf(DecimalTwin.rp, 3) = 1 - BitOf(pre.rp, 3)

\* no other instruction than SED, CLD, PLP and RTI changes D; SED sets it
\* and CLD clears it
DecimalWrittenOnlyByFour ==
    status = "callback" =>
        /\ opscode \notin DecimalWriters => BitOf(rp, 3) = BitOf(pre.rp, 3)
        /\ opscode = \hf8 => BitOf(rp, 3) = 1
        /\ opscode = \hd8 => BitOf(rp, 3) = 0

\* C30: the decimal flag is writable but never acted upon: from two CPU
\* states that differ only in D the same ADC or SBC yields identical A, C,
\* V, Z and N and D keeps its value; D changes only through SED, CLD, PLP and
\* RTI.
C30_DecimalFlagIgnored == DecimalIgnored /\ DecimalWrittenOnlyByFour

\* ADC #0x01 on A = 0x7F with D set and C clear left the binary sum 0x80
\* and D set
C30_Witness ==
    /\ status = "callback" /\ opscode = \h69
    /\ BitOf(pre.rp, 3) = 1 /\ CarryOf(pre.rp) = 0
    /\ pre.ra = 127 /\ Operand8 = 1
    /\ ra = 128 /\ BitOf(rp, 3) = 1

\* C31: BRK, opcode 0x00 fetched at p, changes nothing except PC, which
\* becomes p + 1: A, X, Y, SP, P and every memory byte have the values they
\* had before the fetch, and nothing is pushed on the stack.
C31_BrkOnlyAdvancesPc ==
    (opscode = \h00 /\ status # "panicked") =>
        /\ status = "halted"
        /\ pc = op_pc + 1
        /\ RegistersKept /\ rs = pre.rs
        /\ memory = pre.memory

\* the BRK at 0xFFFE that an RTI returned to, with every flag of the popped
\* status byte set and SP = 0x00: PC is 0xFFFF, P, SP and the stack page are
\* as the RTI left them
C31_Witness ==
    /\ status = "halted" /\ opscode = \h00 /\ op_pc = 65534
    /\ pc = 65535 /\ rp = 239 /\ rs = 0
    /\ Cell(memory, STACK + 254) = 255

====
